---- MODULE Spec2Model ----
(***************************************************************************)
(* Model of two skills of llm-toolkit.                                     *)
(* clean-conversations:                                                    *)
(*   scripts/scan.py    the Classifier (finds wasteful session logs)       *)
(*   scripts/delete.py  the Deleter (removes the sessions of a report)     *)
(* linear:                                                                 *)
(*   scripts/linear.py  the commands done, update and relate               *)
(*                                                                         *)
(* Spec          the Deleter running on a report over a small file system. *)
(* SpecScan      the Classifier's per-file loop running on one session log *)
(*               of the documented shapes.                                 *)
(* SpecScanAny   the same loop running on a session log of any content.    *)
(* SpecTree      the Classifier running on a tree of projects and logs.    *)
(* SpecRescan    the Classifier run twice on the same tree.                *)
(* SpecPipeline  the Classifier, then the Deleter on the report it printed.*)
(* SpecNames     the same pipeline on trees that hold a file whose name    *)
(*               ends in .jsonl twice.                                     *)
(* SpecDeleteAny the Deleter on reports that may list the empty identifier.*)
(* SpecRedelete  the Deleter run twice on the same report.                 *)
(* SpecLinear    one command of linear.py against a small issue tracker.   *)
(***************************************************************************)
EXTENDS Integers, Sequences, FiniteSets, TLC

\* ------------------------------------------------------------------------
\* Bounds of the model
\* ------------------------------------------------------------------------

\* Session identifiers listed in one report, over all its projects.
MaxListed == 2

\* File operations that raise in one run of the Deleter.
MaxFaults == 1

\* Lines of a session log.
MaxLines == 2

\* Tokens of the string content of a user event.
MaxStr == 3

\* ------------------------------------------------------------------------
\* The file system under ~/.claude/projects seen by the Deleter
\* ------------------------------------------------------------------------

Projects == {"p1", "p2"}

\* Session identifiers that occur in a project.
Known(p) == IF p = "p1" THEN {"a", "b"} ELSE {"a"}

\* <<p, id>> stands for the log file p/<id>.jsonl.
LogFiles == {<<p, id>> : p \in Projects, id \in {"a", "b"}} \ {<<"p2", "b">>}

\* The log file p1/a.jsonl.jsonl, a name that holds ".jsonl" twice.
DoubleLog == <<"p1", "a.jsonl">>

\* The log files a tree may hold.
AllLogFiles == LogFiles \cup {DoubleLog}

\* <<p, id>> stands for the companion directory p/<id>.
CompanionDirs == {<<"p1", "a">>}

\* Sequences without repetition over the set S.
RECURSIVE Arrangements(_)
Arrangements(S) ==
    {<<>>} \cup UNION {{<<x>> \o t : t \in Arrangements(S \ {x})} : x \in S}

\* The elements of a sequence.
Range(f) == {f[x] : x \in DOMAIN f}

\* One entry of the "entries" array of sessions-index.json.
Entry(id) == [sessionId |-> id]

\* The content of p/sessions-index.json: no such file, a text that is not
\* JSON, bytes that are not text in the encoding open() reads with, or a
\* JSON object with a "version" field and maybe an "entries" array.
AbsentIndex == [kind |-> "absent", hasEntries |-> FALSE, entries |-> <<>>]
CorruptIndex == [kind |-> "corrupt", hasEntries |-> FALSE, entries |-> <<>>]
UndecodableIndex == [kind |-> "undecodable", hasEntries |-> FALSE, entries |-> <<>>]
JsonIndex(has, es) == [kind |-> "json", hasEntries |-> has, entries |-> es]

IndexContents(p) ==
    {AbsentIndex, CorruptIndex, UndecodableIndex, JsonIndex(FALSE, <<>>)}
        \cup {JsonIndex(TRUE, [k \in DOMAIN ids |-> Entry(ids[k])]) :
                ids \in Arrangements(Known(p))}

\* index_data = None: no index was loaded for the project.
NoIndex == [kind |-> "none", hasEntries |-> FALSE, entries |-> <<>>]

\* ------------------------------------------------------------------------
\* The report handed to the Deleter
\* ------------------------------------------------------------------------

ListsOver(S, n) == UNION {[1..k -> S] : k \in 0..n}

ReportEntry(p, ids) == [project_dir |-> p, session_ids |-> ids]

\* The number of session identifiers a report lists.
RECURSIVE Listed(_)
Listed(r) == IF r = <<>> THEN 0 ELSE Len(Head(r).session_ids) + Listed(Tail(r))

\* report.items(): the projects of the report in the order of the JSON text,
\* which is the sorted order scan.py adds them in; no project twice (they are
\* the keys of one object); a session identifier may be listed more than once.
Reports ==
    LET one == {<<ReportEntry(p, l)>> :
                    p \in Projects, l \in ListsOver({"a", "b"}, MaxListed)}
        two == {r \o s : r \in one, s \in one}
    IN  {r \in one \cup two :
            /\ Listed(r) <= MaxListed
            /\ \A i \in DOMAIN r :
                  \A k \in DOMAIN r[i].session_ids :
                      r[i].session_ids[k] \in Known(r[i].project_dir)
            /\ Len(r) = 2 => r[1].project_dir = "p1" /\ r[2].project_dir = "p2"}

\* The log file p1/.jsonl, whose session identifier is the empty string.
EmptyIdLog == <<"p1", "">>

\* The reports of any session identifiers: a report may list the empty
\* string, the identifier scan.py records for a log named ".jsonl".
AnyReports ==
    LET one == {<<ReportEntry(p, l)>> :
                    p \in Projects, l \in ListsOver({"", "a"}, MaxListed)}
        two == {r \o s : r \in one, s \in one}
    IN  {r \in one \cup two :
            /\ Listed(r) <= MaxListed
            /\ Len(r) = 2 => r[1].project_dir = "p1" /\ r[2].project_dir = "p2"}

\* ------------------------------------------------------------------------
\* Session logs read by the Classifier
\* ------------------------------------------------------------------------

\* The content string of a user event is a sequence of tokens: a whitespace
\* character, any other character, one of the two local-command-stdout tags,
\* or the text <command-name>/NAME</command-name> for a command NAME.
Space == [k |-> "ws", v |-> " "]
Newline == [k |-> "ws", v |-> "\n"]
Char == [k |-> "ch", v |-> "x"]
StdoutOpen == [k |-> "tag", v |-> "<local-command-stdout>"]
StdoutClose == [k |-> "tag", v |-> "</local-command-stdout>"]
CommandTag(name) == [k |-> "cmd", v |-> name]

\* The command names that occur in the model's logs: a local one and one
\* LOCAL_CMD_RE does not list.
CommandNames == {"clear", "commit"}

Tokens ==
    {Space, Newline, Char, StdoutOpen, StdoutClose}
        \cup {CommandTag(n) : n \in CommandNames}

Strings(n) == UNION {[1..k -> Tokens] : k \in 0..n}

\* The command names LOCAL_CMD_RE lists.
LocalCommands ==
    {"clear", "exit", "compact", "resume", "init", "login", "logout",
     "status", "config", "help", "model", "cost", "memory", "doctor", "bug",
     "review", "terminal-setup", "listen", "mcp", "release-notes",
     "permissions", "approved-tools"}

\* re.match in the place of re.search: a local command tag at the start.
LocalCmdSearchAtStart(content) ==
    /\ content # <<>>
    /\ content[1].k = "cmd" /\ content[1].v \in LocalCommands

\* LOCAL_CMD_RE.search(content): a local command tag anywhere in content.
LocalCmdSearch(content) ==
    \E i \in DOMAIN content :
        content[i].k = "cmd" /\ content[i].v \in LocalCommands

\* The pattern compiled without re.DOTALL: .* spans no newline.
LocalCmdStdoutMatchNoDotall(content) ==
    /\ Len(content) >= 2
    /\ content[1] = StdoutOpen
    /\ \E j \in 2..Len(content) :
          /\ content[j] = StdoutClose
          /\ \A i \in 2..(j - 1) : content[i] # Newline
          /\ \/ j = Len(content)
             \/ j = Len(content) - 1 /\ content[Len(content)] = Newline

\* LOCAL_CMD_STDOUT_RE.match(content): ^ is the start of content, .* spans
\* anything (re.DOTALL), $ is the end of content or the place before a
\* newline that ends content.
LocalCmdStdoutMatch(content) ==
    /\ Len(content) >= 2
    /\ content[1] = StdoutOpen
    /\ \E j \in 2..Len(content) :
          /\ content[j] = StdoutClose
          /\ \/ j = Len(content)
             \/ j = Len(content) - 1 /\ content[Len(content)] = Newline

\* content.strip()
RECURSIVE LStrip(_)
LStrip(content) ==
    IF content # <<>> /\ Head(content).k = "ws"
    THEN LStrip(Tail(content)) ELSE content

RECURSIVE RStrip(_)
RStrip(content) ==
    IF content # <<>> /\ content[Len(content)].k = "ws"
    THEN RStrip(SubSeq(content, 1, Len(content) - 1)) ELSE content

Strip(content) == RStrip(LStrip(content))

\* The "content" of a user event's message: the key is missing (with the
\* message or without it), or its value is null, a list or a string.
NoContent(how) == [is |-> how, str |-> <<>>]
ListContent == [is |-> "list", str |-> <<>>]
StrContent(str) == [is |-> "str", str |-> str]

\* A line of a session log: blank, not JSON, bytes that are not text in the
\* encoding open() reads with ("undecodable"), a JSON value that is no
\* object, or a JSON object (an event) with its "type", "isMeta" and message
\* content.
TextLine(what) ==
    [json |-> what, type |-> "", isMeta |-> FALSE, content |-> NoContent("no content")]
Event(type) ==
    [json |-> "object", type |-> type, isMeta |-> FALSE,
     content |-> NoContent("no content")]
UserEvent(isMeta, content) ==
    [json |-> "object", type |-> "user", isMeta |-> isMeta, content |-> content]

\* The types line 43 skips.
NonContentTypes ==
    {"file-history-snapshot", "progress", "summary", "system",
     "queue-operation", "custom-title"}

\* The lines of the logs of the model: blank and unparsable lines, events of
\* every type the Classifier names and of no type, and user events, flagged
\* as meta or not, with no message, no content, a list or a string of at
\* most one token.
ShortLines ==
    {TextLine("blank"), TextLine("invalid")}
        \cup {Event(t) : t \in NonContentTypes \cup {"assistant", ""}}
        \cup {UserEvent(m, c) :
                m \in BOOLEAN,
                c \in {NoContent("no message"), NoContent("no content"), ListContent}
                        \cup {StrContent(str) : str \in Strings(1)}}

\* The session logs of the model: up to MaxLines lines of ShortLines, and
\* one user event whose content is a string of up to MaxStr tokens.
SessionLogs ==
    UNION {[1..n -> ShortLines] : n \in 0..MaxLines}
        \cup {<<UserEvent(FALSE, StrContent(str))>> : str \in Strings(MaxStr)}

\* The lines a session log can hold whatever wrote it: those of ShortLines
\* and, besides, bytes that are not text, a JSON value that is no object,
\* and user events whose message or content is null.
AnyLines ==
    {TextLine("blank"), TextLine("invalid"), TextLine("undecodable"),
     TextLine("value"), Event("assistant"), Event("summary")}
        \cup {UserEvent(m, c) :
                m \in BOOLEAN,
                c \in {NoContent("null message"), NoContent("null content"),
                       NoContent("no content"), ListContent,
                       StrContent(<<Char>>)}}

\* The session logs of up to MaxLines lines of AnyLines.
AnyLogs == UNION {[1..n -> AnyLines] : n \in 0..MaxLines}

\* ------------------------------------------------------------------------
\* The directory tree read by the Classifier
\* ------------------------------------------------------------------------

\* A file name is the sequence of its parts; the text ".jsonl" is a part of
\* its own wherever it occurs in the name.
LogName(id) ==
    IF id = "a.jsonl" THEN <<"a", ".jsonl", ".jsonl">> ELSE <<id, ".jsonl">>
DirName(id) == <<id>>
IndexName == <<"sessions-index", ".json">>

\* Line 18: f.endswith(".jsonl")
EndsWithJsonl(f) == f # <<>> /\ f[Len(f)] = ".jsonl"

\* The text of a name: its parts in a row.
RECURSIVE Join(_)
Join(parts) == IF parts = <<>> THEN "" ELSE Head(parts) \o Join(Tail(parts))

\* Line 84: fname.replace(".jsonl", "")
ReplaceJsonl(f) == Join(SelectSeq(f, LAMBDA part : part # ".jsonl"))

\* The names of the model in the order sorted() puts them in.
NameOrder == <<"p1", "p2">>

\* The base directory: it exists or not, and each name in it is a
\* directory, a plain file or absent.
BaseDir(kind) == [exists |-> TRUE, kind |-> kind]
NoBaseDir == [exists |-> FALSE, kind |-> [p \in Projects |-> "absent"]]
AllProjects == BaseDir([p \in Projects |-> "dir"])

\* The names a project directory may hold: its session logs, its companion
\* directories and the index file.
ProjectLogNames(p) == {LogName(id) : id \in Known(p)}
ProjectDirNames(p) == {DirName(f[2]) : f \in {g \in CompanionDirs : g[1] = p}}

\* The sequences that hold every element of S once.
Orders(S) == {s \in Arrangements(S) : Len(s) = Cardinality(S)}

\* The orders os.listdir may give the names of project p in: the session
\* logs in every order, after the index file and before the directories.
DirOrders(p) ==
    {<<IndexName>> \o ls \o ds :
        ls \in Orders(ProjectLogNames(p)), ds \in Orders(ProjectDirNames(p))}

\* The session logs of the projects of the tree: an empty log, a log with an
\* assistant event, a log with only a meta user event, a log with a line
\* that is not JSON before a user event with real text, and a log whose
\* bytes are not text.
TreeLogs ==
    {<<>>,
     <<Event("assistant")>>,
     <<UserEvent(TRUE, StrContent(<<Char>>))>>,
     <<TextLine("invalid"), UserEvent(FALSE, StrContent(<<Char>>))>>,
     <<TextLine("undecodable")>>}

\* ------------------------------------------------------------------------
\* State
\* ------------------------------------------------------------------------

VARIABLES
    \* the file system
    logs,           \* the log files that exist
    dirs,           \* the companion directories that exist
    indexFile,      \* indexFile[p]: the content of p/sessions-index.json
    \* delete.py
    report,         \* the report substituted for $REPORT_JSON
    pc,             \* the statement the Deleter is at
    pi,             \* position of project_dir in report.items()
    si,             \* position of session_id in info["session_ids"]
    index_data,     \* the index loaded for the current project, or NoIndex
    deleted,        \* deleted
    errors,         \* errors
    \* what the Deleter met and did, for the properties
    start,          \* logs, dirs and indexFile when the Deleter started
    attempted,      \* <<step, pi, si>>: the step was run for that listing
    failed,         \* <<step, pi, si>>: the step's file operation raised
    removed,        \* the log files removed by this run
    loaded,         \* the projects whose index was loaded
    written,        \* the projects whose index was written back in full
    faults,         \* the file operations that raised so far
    \* scan.py, for one session log
    fileLines,      \* the lines of the session log fpath
    scanPc,         \* the statement the Classifier is at
    lineNo,         \* the line of the log the loop reads next
    has_real_content, \* has_real_content
    wasteful,       \* wasteful
    readFailed,     \* open or a read of the log raised IOError
    \* the file system as the Classifier sees it
    base,           \* the base directory ~/.claude/projects
    logText,        \* logText[f]: the lines of the log file f, while it exists
    unreadable,     \* the log files open() is denied
    dirOrder,       \* dirOrder[p]: the order os.listdir gives p's names in
    \* scan.py, the loops over the projects and their logs
    pj,             \* position of project_dir in sorted(os.listdir(base))
    jsonl_files,    \* jsonl_files
    fj,             \* position of fname in jsonl_files
    total,          \* total
    results,        \* results, in the order its keys were added
    output,         \* the JSON objects printed so far
    \* what the Classifier met and did, for the properties
    classified,     \* <<project, file name, verdict>> of the logs gone through
    run,            \* the number of the run of the Classifier
    firstOutput,    \* what the first run printed
    pass,           \* the number of the run of the Deleter
    firstResult,    \* what the first run of the Deleter printed
    \* linear.py
    api_key,        \* LINEAR_API_KEY is set
    cmd,            \* the command line linear.py was started with
    remote,         \* what the issue tracker holds
    requests,       \* the GraphQL requests sent so far
    reply           \* the response printed, once the command has ended

fsVars == <<logs, dirs, indexFile>>

delVars == <<report, pc, pi, si, index_data, deleted, errors>>

histVars == <<start, attempted, failed, removed, loaded, written, faults>>

treeVars == <<base, logText, unreadable, dirOrder>>

fileVars == <<fileLines, lineNo, has_real_content, readFailed>>

loopVars == <<pj, jsonl_files, fj, total, results, output>>

runVars == <<run, firstOutput, pass, firstResult>>

scanVars ==
    <<fileVars, scanPc, wasteful, treeVars, loopVars, classified, runVars>>

linVars == <<api_key, cmd, remote, requests, reply>>

vars == <<fsVars, delVars, histVars, scanVars, linVars>>

\* The command lines of linear.py the model runs: done, update with its
\* --label, --no-labels and --title options, and relate.
NoCmd ==
    [name |-> "none", issue_id |-> "", label |-> <<>>, no_labels |-> FALSE,
     title |-> FALSE, relation |-> <<>>, target_id |-> ""]
DoneCmd(issue) ==
    [name |-> "done", issue_id |-> issue, label |-> <<>>, no_labels |-> FALSE,
     title |-> FALSE, relation |-> <<>>, target_id |-> ""]
UpdateCmd(issue, label, no_labels, title) ==
    [name |-> "update", issue_id |-> issue, label |-> label,
     no_labels |-> no_labels, title |-> title, relation |-> <<>>,
     target_id |-> ""]
RelateCmd(issue, relation, target) ==
    [name |-> "relate", issue_id |-> issue, label |-> <<>>, no_labels |-> FALSE,
     title |-> FALSE, relation |-> relation, target_id |-> target]

\* The issue tracker: the issues that exist, the workflow states and the
\* labels of the team, and of the issue the command names its state (0
\* for a state outside the model), its labels and the relations created.
Remote(issues, states, labels, issueLabels) ==
    [issues |-> issues, states |-> states, labels |-> labels,
     issueState |-> 0, issueLabels |-> issueLabels, relations |-> {}]

\* No command of linear.py is running.
LinearIdle ==
    /\ api_key = TRUE
    /\ cmd = NoCmd
    /\ remote = Remote({}, <<>>, <<>>, {})
    /\ requests = <<>>
    /\ reply = <<>>

project_dir == report[pi].project_dir
session_id == report[pi].session_ids[si]

\* The strings appended to errors.
DeleteError(p, id) == [what |-> "Failed to delete", project |-> p, id |-> id]
DeleteDirError(p, id) == [what |-> "Failed to delete dir", project |-> p, id |-> id]
WriteIndexError(p) == [what |-> "Failed to write index", project |-> p, id |-> ""]

\* ------------------------------------------------------------------------
\* delete.py
\* ------------------------------------------------------------------------

\* Lines 3-7: the Deleter starts on a report of the set reports in a file
\* system whose log files are some of the set files.
DeleterOn(reports, files) ==
    /\ report \in reports
    /\ logs \in SUBSET files
    /\ dirs \in SUBSET CompanionDirs
    /\ indexFile \in {f \in [Projects -> IndexContents("p1")] :
                        \A p \in Projects : f[p] \in IndexContents(p)}
    /\ pc = "load"
    /\ pi = 1
    /\ si = 1
    /\ index_data = NoIndex
    /\ deleted = 0
    /\ errors = <<>>
    /\ start = [logs |-> logs, dirs |-> dirs, indexFile |-> indexFile]
    /\ attempted = {}
    /\ failed = {}
    /\ removed = {}
    /\ loaded = {}
    /\ written = {}
    /\ faults = 0

DeleterInit == DeleterOn(Reports, LogFiles)

\* Some order of the names of every project.
SomeOrder == [p \in Projects |-> CHOOSE o \in DirOrders(p) : TRUE]

\* Lines 11, 22-23, 27: the variables of the Classifier before its loops.
ScanStart ==
    /\ fileLines = <<>>
    /\ lineNo = 1
    /\ has_real_content = FALSE
    /\ wasteful = <<>>
    /\ readFailed = FALSE
    /\ pj = 1
    /\ jsonl_files = <<>>
    /\ fj = 1
    /\ total = 0
    /\ results = <<>>
    /\ output = <<>>
    /\ classified = {}
    /\ run = 1
    /\ firstOutput = <<>>
    /\ pass = 1
    /\ firstResult = <<>>

\* The Classifier is not running; the Deleter finds every project
\* directory and does not read the logs.
ScanIdle ==
    /\ ScanStart
    /\ scanPc = "idle"
    /\ base = AllProjects
    /\ logText = [f \in AllLogFiles |-> <<>>]
    /\ unreadable = {}
    /\ dirOrder = SomeOrder

\* The outcomes of a file operation: it succeeds (TRUE) or raises (FALSE).
Outcomes == IF faults < MaxFaults THEN {TRUE, FALSE} ELSE {TRUE}

\* Lines 15-20: json.load(f) of the index file: the parsed value, or None
\* when the file cannot be opened or read (readable = FALSE) or is not JSON.
LoadedIndex(content, readable) ==
    IF readable /\ content.kind = "json" THEN content ELSE NoIndex

\* Line 18: json.load(f) raises UnicodeDecodeError, which line 19 does not
\* catch, when the file was opened and its bytes are not text.
LoadRaises(content, readable) == readable /\ content.kind = "undecodable"

\* Lines 9-20: the next project of the report; load its index if present.
LoadIndex ==
    /\ pc = "load"
    /\ pi <= Len(report)
    /\ \E readable \in IF indexFile[project_dir].kind = "absent"
                       THEN {TRUE} ELSE Outcomes :
          /\ index_data' = LoadedIndex(indexFile[project_dir], readable)
          /\ faults' = IF readable THEN faults ELSE faults + 1
          /\ pc' = IF LoadRaises(indexFile[project_dir], readable) THEN "raised"
                   ELSE IF report[pi].session_ids = <<>> THEN "write"
                   ELSE "rmlog"
    /\ loaded' = IF index_data'.kind = "none" THEN loaded
                 ELSE loaded \cup {project_dir}
    /\ si' = 1
    /\ UNCHANGED <<fsVars, report, pi, deleted, errors>>
    /\ UNCHANGED <<start, attempted, failed, removed, written>>
    /\ UNCHANGED scanVars
    /\ UNCHANGED linVars

\* A removal that reports success and removes nothing.
RemoveNothing(files, file) == files

\* Line 27, line 36: the files left when os.remove or shutil.rmtree of file
\* returns.
Remove(files, file) == files \ {file}

\* A count of the removals tried, failed ones included.
CountDeletedAlways(n, ok) == n + 1

\* Lines 28-30: deleted and errors after os.remove of the log file.
CountDeleted(n, ok) == IF ok THEN n + 1 ELSE n
RecordLogError(errs, p, id, ok) ==
    IF ok THEN errs ELSE Append(errs, DeleteError(p, id))

\* A failed removal of the log file that ends the run.
AfterLogAbort(ok) == IF ok THEN "rmdir" ELSE "done"

\* Lines 31-33: after the log file, the companion directory, whatever the
\* outcome of the removal.
AfterLog(ok) == "rmdir"

\* A removal run whether the log file exists or not.
LogIsFileUntested(file) == TRUE

\* Line 25: os.path.isfile(jsonl_path)
LogIsFile(file) == file \in logs

\* Lines 24-30: remove the log file if it exists.
RemoveLog ==
    /\ pc = "rmlog"
    /\ attempted' = attempted \cup {<<"log", pi, si>>}
    /\ LET file == <<project_dir, session_id>>
       IN  IF LogIsFile(file)
           THEN \E ok \in Outcomes :
                  /\ logs' = IF ok THEN Remove(logs, file) ELSE logs
                  /\ deleted' = CountDeleted(deleted, ok)
                  /\ errors' = RecordLogError(errors, project_dir, session_id, ok)
                  /\ removed' = IF ok THEN removed \cup {file} ELSE removed
                  /\ failed' = IF ok THEN failed
                               ELSE failed \cup {<<"log", pi, si>>}
                  /\ faults' = IF ok THEN faults ELSE faults + 1
                  /\ pc' = AfterLog(ok)
           ELSE /\ UNCHANGED <<logs, deleted, errors, removed, failed, faults>>
                /\ pc' = AfterLog(TRUE)
    /\ UNCHANGED <<dirs, indexFile, report, pi, si, index_data>>
    /\ UNCHANGED <<start, loaded, written>>
    /\ UNCHANGED scanVars
    /\ UNCHANGED linVars

\* Line 33: os.path.join(project_path, session_id) names the project
\* directory itself when session_id is the empty string.
IsProjectPath(id) == id = ""

\* Line 34: os.path.isdir(companion)
CompanionIsDir(p, id) ==
    IF IsProjectPath(id) THEN base.kind[p] = "dir" ELSE <<p, id>> \in dirs

\* Line 36: the files left when shutil.rmtree(companion) returns: without
\* the companion directory, or without every file of the project when
\* companion is the project directory.
RemoveTree(files, p, id) ==
    IF IsProjectPath(id) THEN {f \in files : f[1] # p}
    ELSE Remove(files, <<p, id>>)

\* Lines 34-38: remove the companion directory if it exists.
RemoveCompanion ==
    /\ pc = "rmdir"
    /\ attempted' = attempted \cup {<<"dir", pi, si>>}
    /\ IF CompanionIsDir(project_dir, session_id)
       THEN \E ok \in Outcomes :
              /\ dirs' = IF ok THEN RemoveTree(dirs, project_dir, session_id)
                         ELSE dirs
              /\ logs' = IF ok /\ IsProjectPath(session_id)
                         THEN RemoveTree(logs, project_dir, session_id)
                         ELSE logs
              /\ indexFile' = IF ok /\ IsProjectPath(session_id)
                              THEN [indexFile EXCEPT ![project_dir] = AbsentIndex]
                              ELSE indexFile
              /\ base' = IF ok /\ IsProjectPath(session_id)
                         THEN [base EXCEPT !.kind[project_dir] = "absent"]
                         ELSE base
              /\ errors' =
                     IF ok THEN errors
                     ELSE Append(errors, DeleteDirError(project_dir, session_id))
              /\ failed' = IF ok THEN failed
                           ELSE failed \cup {<<"dir", pi, si>>}
              /\ faults' = IF ok THEN faults ELSE faults + 1
       ELSE UNCHANGED <<dirs, logs, indexFile, base, errors, failed, faults>>
    /\ pc' = "filter"
    /\ UNCHANGED <<report, pi, si, index_data, deleted>>
    /\ UNCHANGED <<start, removed, loaded, written>>
    /\ UNCHANGED <<fileVars, scanPc, wasteful, logText, unreadable, dirOrder>>
    /\ UNCHANGED <<loopVars, classified, runVars>>
    /\ UNCHANGED linVars

\* The filter turned round: the entries of the session are the ones kept.
FilterEntriesInverted(entries, id) ==
    SelectSeq(entries, LAMBDA e : e.sessionId = id)

\* Lines 42-45: the entries whose sessionId is not id, in their order.
FilterEntries(entries, id) ==
    SelectSeq(entries, LAMBDA e : e.sessionId # id)

\* Filtering only once the log file is gone.
FilteredIndexIfRemoved(data, id) ==
    IF data.kind = "json" /\ data.hasEntries /\ <<project_dir, id>> \notin logs
    THEN [data EXCEPT !.entries = FilterEntries(@, id)]
    ELSE data

\* Lines 41-45: the loaded index without the entries of session id.
FilteredIndex(data, id) ==
    IF data.kind = "json" /\ data.hasEntries
    THEN [data EXCEPT !.entries = FilterEntries(@, id)]
    ELSE data

\* Lines 41-45: drop the session from the loaded index; next session.
FilterIndex ==
    /\ pc = "filter"
    /\ attempted' = attempted \cup {<<"filter", pi, si>>}
    /\ index_data' = FilteredIndex(index_data, session_id)
    /\ IF si < Len(report[pi].session_ids)
       THEN si' = si + 1 /\ pc' = "rmlog"
       ELSE si' = si /\ pc' = "write"
    /\ UNCHANGED <<fsVars, report, pi, deleted, errors>>
    /\ UNCHANGED <<start, failed, removed, loaded, written, faults>>
    /\ UNCHANGED scanVars
    /\ UNCHANGED linVars

\* A write-back of the index as it was loaded from the file.
IndexAfterWriteStale(old, data, outcome) ==
    IF outcome = "write raises" THEN CorruptIndex ELSE old

\* Lines 49-53: the index file after the attempt to write data to it:
\* open(index_path, "w") may raise before the file is touched, json.dump may
\* raise after it was truncated.
IndexAfterWrite(old, data, outcome) ==
    CASE outcome = "ok" -> data
      [] outcome = "open raises" -> old
      [] OTHER -> CorruptIndex

\* Line 50: the outcomes of the write-back: open(index_path, "w") raises
\* when the project directory is gone; otherwise open or json.dump may
\* raise.
WriteOutcomes(p) ==
    IF base.kind[p] # "dir" THEN {"open raises"}
    ELSE IF faults < MaxFaults THEN {"ok", "open raises", "write raises"}
    ELSE {"ok"}

\* A failed write of the index that ends the run.
AfterWriteAbort(outcome) == IF outcome = "ok" THEN "load" ELSE "done"

\* Lines 52-53 and 9: after the write-back, the next project of the report,
\* whatever the outcome of the write.
AfterWrite(outcome) == "load"

\* Lines 48-53: write the loaded index back; next project.
WriteIndex ==
    /\ pc = "write"
    /\ IF index_data.kind # "none"
       THEN \E outcome \in WriteOutcomes(project_dir) :
                /\ indexFile' =
                       [indexFile EXCEPT ![project_dir] =
                            IndexAfterWrite(@, index_data, outcome)]
                /\ errors' = IF outcome = "ok" THEN errors
                             ELSE Append(errors, WriteIndexError(project_dir))
                /\ written' = IF outcome = "ok" THEN written \cup {project_dir}
                              ELSE written
                /\ failed' = IF outcome = "ok" THEN failed
                             ELSE failed \cup {<<"index", pi, 0>>}
                /\ faults' = IF outcome = "ok" \/ base.kind[project_dir] # "dir"
                             THEN faults ELSE faults + 1
                /\ pc' = AfterWrite(outcome)
       ELSE /\ UNCHANGED <<indexFile, errors, written, failed, faults>>
            /\ pc' = AfterWrite("ok")
    /\ pi' = pi + 1
    /\ UNCHANGED <<logs, dirs, report, si, index_data, deleted>>
    /\ UNCHANGED <<start, attempted, removed, loaded>>
    /\ UNCHANGED scanVars
    /\ UNCHANGED linVars

\* Line 55: print the result.
PrintResult ==
    /\ pc = "load"
    /\ pi > Len(report)
    /\ pc' = "done"
    /\ UNCHANGED <<fsVars, report, pi, si, index_data, deleted, errors>>
    /\ UNCHANGED histVars
    /\ UNCHANGED scanVars
    /\ UNCHANGED linVars

\* ------------------------------------------------------------------------
\* scan.py
\* ------------------------------------------------------------------------

\* The Deleter is not running.
DeleterIdle ==
    /\ report = <<>>
    /\ pc = "idle"
    /\ pi = 1
    /\ si = 1
    /\ index_data = NoIndex
    /\ deleted = 0
    /\ errors = <<>>
    /\ start = [logs |-> logs, dirs |-> dirs, indexFile |-> indexFile]
    /\ attempted = {}
    /\ failed = {}
    /\ removed = {}
    /\ loaded = {}
    /\ written = {}
    /\ faults = 0

\* Line 13: sorted(os.listdir(base)), whatever order os.listdir gives.
BaseListing == SelectSeq(NameOrder, LAMBDA n : base.kind[n] # "absent")

\* Line 13: project_dir of scan.py.
ScanProject == BaseListing[pj]

\* The project directory p holds the name n.
NameExists(p, n) ==
    \/ \E f \in logs : f[1] = p /\ n = LogName(f[2])
    \/ \E f \in dirs : f[1] = p /\ n = DirName(f[2])
    \/ n = IndexName /\ indexFile[p].kind # "absent"

Reverse(s) == [i \in 1..Len(s) |-> s[Len(s) + 1 - i]]

\* A listing that gives the names in another order in the second run.
ListDirByRun(p) ==
    LET names == SelectSeq(dirOrder[p], LAMBDA n : NameExists(p, n))
    IN  IF run = 2 THEN Reverse(names) ELSE names

\* Line 18: os.listdir(project_path): the names the directory holds, in the
\* order the file system keeps them in.
ListDir(p) == SelectSeq(dirOrder[p], LAMBDA n : NameExists(p, n))

\* Line 18: jsonl_files
JsonlFiles(p) == SelectSeq(ListDir(p), EndsWithJsonl)

\* The number of the logs that can be opened.
TotalOfReadable(p, files) ==
    Cardinality({k \in DOMAIN files :
                    \A f \in unreadable : f[1] = p => LogName(f[2]) # files[k]})

\* Line 23: total
TotalOf(p, files) == Len(files)

\* Lines 25-26: fname and the log file fpath names.
fname == jsonl_files[fj]
fpath == CHOOSE f \in AllLogFiles : f[1] = ScanProject /\ LogName(f[2]) = fname

\* Line 84: session_id of scan.py.
ScannedId == ReplaceJsonl(fname)

\* open(fpath, "w")
OpenModeWrite == "w"

\* Line 30: open(fpath) opens the log for reading.
OpenMode == "r"

\* Line 30: the lines of a log after it was opened: mode "w" truncates it.
Opened(text, mode) == IF mode = "w" THEN <<>> ELSE text

\* The message printed for a missing base directory left out.
MissingBaseOutputEmpty == [kind |-> "report", error |-> "", report |-> <<>>]

\* Line 5: the object printed when the base directory is missing.
MissingBaseOutput ==
    [kind |-> "error", error |-> "No projects directory found", report |-> <<>>]

\* Line 94: the object printed for results.
ReportOutput(res) == [kind |-> "report", error |-> "", report |-> res]

\* Lines 88-92: the value stored in results for a project.
ResultEntry(p, n, ids) ==
    [project_dir |-> p, total |-> n, wasteful |-> Len(ids), session_ids |-> ids]

\* Every project with session logs stored in results.
IncludeProjectAlways(ids) == TRUE

\* Line 87: if wasteful
IncludeProject(ids) == ids # <<>>

\* The state at line 25 for the one session log of the one project, a log
\* of the set texts.
ScanOneLog(texts) ==
    /\ base = BaseDir([p \in Projects |-> IF p = "p1" THEN "dir" ELSE "absent"])
    /\ logs = {<<"p1", "a">>}
    /\ dirs = {}
    /\ indexFile = [p \in Projects |-> AbsentIndex]
    /\ logText \in {[f \in AllLogFiles |-> IF f = <<"p1", "a">> THEN l ELSE <<>>] :
                        l \in texts}
    /\ unreadable = {}
    /\ dirOrder = SomeOrder
    /\ fileLines = logText[<<"p1", "a">>]
    /\ scanPc = "open"
    /\ lineNo = 1
    /\ has_real_content = FALSE
    /\ wasteful = <<>>
    /\ readFailed = FALSE
    /\ pj = 1
    /\ jsonl_files = <<LogName("a")>>
    /\ fj = 1
    /\ total = 1
    /\ results = <<>>
    /\ output = <<>>
    /\ classified = {}
    /\ run = 1
    /\ firstOutput = <<>>
    /\ pass = 1
    /\ firstResult = <<>>

ScanInit == ScanOneLog(SessionLogs)

\* An assistant event that is skipped like a structural one.
OnAssistantContinue == "continue"

\* Lines 47-49: an assistant event ends the loop with has_real_content set.
OnAssistant == "break"

\* The meta flag not looked at.
IsMetaIgnored(obj) == FALSE

\* Line 54: obj.get("isMeta")
IsMeta(obj) == obj.isMeta

\* List content that is skipped.
OnListContentContinue == "continue"

\* Lines 60-62: list content ends the loop with has_real_content set.
OnListContent == "break"

\* The string checks without the test for empty content of lines 73-74.
StringVerdictNoEmptyTest(content) ==
    IF LocalCmdSearch(content) THEN "continue"
    ELSE IF LocalCmdStdoutMatch(content) THEN "continue"
    ELSE "break"

\* Lines 65-78: a string content.
StringVerdict(content) ==
    IF LocalCmdSearch(content) THEN "continue"
    ELSE IF LocalCmdStdoutMatch(content) THEN "continue"
    ELSE IF Strip(content) = <<>> THEN "continue"
    ELSE "break"

\* Lines 52-78: a user event. obj.get("message", {}).get("content", "") is
\* "" when either key is missing and raises when the message is null; the
\* regular expressions raise when the content is null.
UserVerdict(obj) ==
    IF IsMeta(obj) THEN "continue"
    ELSE CASE obj.content.is \in {"no message", "no content"} -> StringVerdict(<<>>)
           [] obj.content.is \in {"null message", "null content"} -> "raise"
           [] obj.content.is = "list" -> OnListContent
           [] OTHER -> StringVerdict(obj.content.str)

\* Lines 40-78: an event.
EventVerdict(obj) ==
    IF obj.type \in NonContentTypes THEN "continue"
    ELSE IF obj.type = "assistant" THEN OnAssistant
    ELSE IF obj.type = "user" THEN UserVerdict(obj)
    ELSE "continue"

\* A line that is not JSON ends the loop as real content does.
OnInvalidLineBreak == "break"

\* Lines 35-38: json.JSONDecodeError is caught and the line skipped.
OnInvalidLine == "continue"

\* Lines 32-78: what one line does to the loop: "continue" with the next
\* line, "break" with has_real_content set, or "raise" an exception that
\* line 80 does not catch (obj.get of a JSON value that is no object).
LineVerdict(line) ==
    CASE line.json = "blank" -> "continue"
      [] line.json = "invalid" -> OnInvalidLine
      [] line.json = "value" -> "raise"
      [] line.json = "undecodable" -> "raise"
      [] OTHER -> EventVerdict(line)

\* Lines 31-78 as a function of the lines of a log: has_real_content when
\* the loop over the lines has ended.
RECURSIVE HasRealContent(_)
HasRealContent(lines) ==
    IF lines = <<>> THEN FALSE
    ELSE CASE LineVerdict(Head(lines)) = "break" -> TRUE
           [] LineVerdict(Head(lines)) = "continue" -> HasRealContent(Tail(lines))
           [] OTHER -> FALSE

\* Lines 80-81: except (IOError, OSError): continue with the next log.
AfterReadError == "next"

\* Lines 26-30: open the log; IOError skips the file (lines 80-81).
OpenFile ==
    /\ scanPc = "open"
    /\ \E ok \in IF fpath \in unreadable THEN {FALSE} ELSE Outcomes :
          /\ scanPc' = IF ok THEN "read" ELSE AfterReadError
          /\ readFailed' = ~ok
          /\ faults' = IF ok \/ fpath \in unreadable THEN faults ELSE faults + 1
          /\ logText' = IF ok THEN [logText EXCEPT ![fpath] = Opened(@, OpenMode)]
                        ELSE logText
          /\ classified' = IF ok THEN classified
                           ELSE classified \cup {<<ScanProject, fname, "skipped">>}
    /\ fileLines' = logText'[fpath]
    /\ lineNo' = 1
    /\ has_real_content' = FALSE
    /\ UNCHANGED <<wasteful, base, unreadable, dirOrder, loopVars, runVars>>
    /\ UNCHANGED <<fsVars, delVars>>
    /\ UNCHANGED <<start, attempted, failed, removed, loaded, written>>
    /\ UNCHANGED linVars

\* Line 31: the outcomes of decoding the part of the log read to get line
\* n. The file is decoded a chunk at a time: bytes that are not text raise
\* UnicodeDecodeError, which line 80 does not catch, when line n holds them
\* (FALSE only) or when a later line of the chunk does (FALSE as well).
Decoded(lines, n) ==
    IF lines[n].json = "undecodable" THEN {FALSE}
    ELSE IF \E k \in (n + 1)..Len(lines) : lines[k].json = "undecodable"
    THEN {TRUE, FALSE}
    ELSE {TRUE}

\* Lines 31-78: read and judge the next line; IOError skips the file.
ReadLine ==
    /\ scanPc = "read"
    /\ lineNo <= Len(fileLines)
    /\ \E ok \in Outcomes, text \in Decoded(fileLines, lineNo) :
          IF ok
          THEN LET verdict == IF text THEN LineVerdict(fileLines[lineNo])
                              ELSE "raise"
               IN  /\ has_real_content' = (verdict = "break")
                   /\ scanPc' = CASE verdict = "continue" -> "read"
                                  [] verdict = "break" -> "classify"
                                  [] OTHER -> "raised"
                   /\ lineNo' = lineNo + 1
                   /\ UNCHANGED <<readFailed, faults, classified>>
          ELSE /\ scanPc' = AfterReadError
               /\ readFailed' = TRUE
               /\ faults' = faults + 1
               /\ classified' = classified \cup {<<ScanProject, fname, "skipped">>}
               /\ UNCHANGED <<has_real_content, lineNo>>
    /\ UNCHANGED <<fileLines, wasteful, treeVars, loopVars, runVars>>
    /\ UNCHANGED <<fsVars, delVars>>
    /\ UNCHANGED <<start, attempted, failed, removed, loaded, written>>
    /\ UNCHANGED linVars

\* Line 31: the log has no more lines.
EndOfFile ==
    /\ scanPc = "read"
    /\ lineNo > Len(fileLines)
    /\ scanPc' = "classify"
    /\ UNCHANGED <<fileVars, wasteful, treeVars, loopVars, classified, runVars>>
    /\ UNCHANGED <<fsVars, delVars, histVars>>
    /\ UNCHANGED linVars

\* Lines 83-85: a log without real content is wasteful.
Classify ==
    /\ scanPc = "classify"
    /\ wasteful' = IF ~has_real_content THEN Append(wasteful, ScannedId)
                   ELSE wasteful
    /\ classified' =
           classified \cup
               {<<ScanProject, fname,
                  IF has_real_content THEN "meaningful" ELSE "wasteful">>}
    /\ scanPc' = "next"
    /\ UNCHANGED <<fileVars, treeVars, loopVars, runVars>>
    /\ UNCHANGED <<fsVars, delVars, histVars>>
    /\ UNCHANGED linVars

InitScan == ScanInit /\ DeleterIdle /\ LinearIdle

NextScan ==
    \/ OpenFile
    \/ ReadLine
    \/ EndOfFile
    \/ Classify

SpecScan == InitScan /\ [][NextScan]_vars

\* The per-file loop running on a session log of any content.
InitScanAny == ScanOneLog(AnyLogs) /\ DeleterIdle /\ LinearIdle

SpecScanAny == InitScanAny /\ [][NextScan]_vars

\* ------------------------------------------------------------------------
\* scan.py, lines 3-23 and 87-94: the loops over the projects and their logs
\* ------------------------------------------------------------------------

\* The directory trees of the model. Logs, companion directories and index
\* files stand in the names of the base directory that are directories.
TreeInit ==
    /\ base \in {NoBaseDir}
                    \cup {BaseDir(k) : k \in [Projects -> {"dir", "file", "absent"}]}
    /\ logs \in SUBSET {f \in LogFiles : base.kind[f[1]] = "dir"}
    /\ dirs \in SUBSET {f \in CompanionDirs : base.kind[f[1]] = "dir"}
    /\ indexFile \in
           {[p \in Projects |-> IF p = "p1" THEN c ELSE AbsentIndex] :
               c \in IF base.kind["p1"] = "dir"
                     THEN {AbsentIndex,
                           JsonIndex(TRUE, <<Entry("a"), Entry("b")>>)}
                     ELSE {AbsentIndex}}
    /\ logText \in {t \in [AllLogFiles -> TreeLogs] :
                        \A f \in AllLogFiles \ logs : t[f] = <<>>}
    /\ unreadable \in {u \in SUBSET logs : Cardinality(u) <= 1}
    /\ dirOrder \in {o \in [Projects -> UNION {DirOrders(p) : p \in Projects}] :
                        /\ \A p \in Projects : o[p] \in DirOrders(p)
                        /\ \A p \in Projects :
                              Cardinality({f \in logs : f[1] = p}) < 2
                                  => o[p] = SomeOrder[p]}

\* Lines 3-11: without the base directory, print the error object and exit.
StartScan ==
    /\ scanPc = "start"
    /\ IF ~base.exists
       THEN /\ output' = Append(output, MissingBaseOutput)
            /\ scanPc' = "exited"
       ELSE /\ output' = output
            /\ scanPc' = "project"
    /\ results' = <<>>
    /\ pj' = 1
    /\ UNCHANGED <<fileVars, wasteful, treeVars, jsonl_files, fj, total>>
    /\ UNCHANGED <<classified, runVars>>
    /\ UNCHANGED <<fsVars, delVars, histVars>>
    /\ UNCHANGED linVars

\* Lines 13-23: the next name of the base directory; a name that is no
\* directory or holds no session log is passed over.
NextProject ==
    /\ scanPc = "project"
    /\ pj <= Len(BaseListing)
    /\ IF base.kind[ScanProject] # "dir" \/ JsonlFiles(ScanProject) = <<>>
       THEN /\ pj' = pj + 1
            /\ UNCHANGED <<scanPc, jsonl_files, fj, total, wasteful>>
       ELSE /\ jsonl_files' = JsonlFiles(ScanProject)
            /\ wasteful' = <<>>
            /\ total' = TotalOf(ScanProject, JsonlFiles(ScanProject))
            /\ fj' = 1
            /\ scanPc' = "open"
            /\ UNCHANGED pj
    /\ UNCHANGED <<fileVars, treeVars, results, output, classified, runVars>>
    /\ UNCHANGED <<fsVars, delVars, histVars>>
    /\ UNCHANGED linVars

\* Line 25: the next log of the project.
NextFile ==
    /\ scanPc = "next"
    /\ fj < Len(jsonl_files)
    /\ fj' = fj + 1
    /\ scanPc' = "open"
    /\ UNCHANGED <<fileVars, wasteful, treeVars, pj, jsonl_files, total>>
    /\ UNCHANGED <<results, output, classified, runVars>>
    /\ UNCHANGED <<fsVars, delVars, histVars>>
    /\ UNCHANGED linVars

\* Lines 87-92: after the last log, store the project in results if it has
\* a wasteful session.
EndProject ==
    /\ scanPc = "next"
    /\ fj >= Len(jsonl_files)
    /\ results' = IF IncludeProject(wasteful)
                  THEN Append(results, ResultEntry(ScanProject, total, wasteful))
                  ELSE results
    /\ pj' = pj + 1
    /\ scanPc' = "project"
    /\ UNCHANGED <<fileVars, wasteful, treeVars, jsonl_files, fj, total>>
    /\ UNCHANGED <<output, classified, runVars>>
    /\ UNCHANGED <<fsVars, delVars, histVars>>
    /\ UNCHANGED linVars

\* Line 94: print results.
PrintReport ==
    /\ scanPc = "project"
    /\ pj > Len(BaseListing)
    /\ output' = Append(output, ReportOutput(results))
    /\ scanPc' = "exited"
    /\ UNCHANGED <<fileVars, wasteful, treeVars, pj, jsonl_files, fj, total>>
    /\ UNCHANGED <<results, classified, runVars>>
    /\ UNCHANGED <<fsVars, delVars, histVars>>
    /\ UNCHANGED linVars

InitTree == TreeInit /\ ScanStart /\ scanPc = "start" /\ DeleterIdle /\ LinearIdle

NextTree ==
    \/ StartScan
    \/ NextProject
    \/ OpenFile
    \/ ReadLine
    \/ EndOfFile
    \/ Classify
    \/ NextFile
    \/ EndProject
    \/ PrintReport

SpecTree == InitTree /\ [][NextTree]_vars

\* The exit status of the Classifier: 0 after line 6 or line 94, 1 after an
\* exception nothing catches, -1 while it runs.
ScanExitStatus ==
    CASE scanPc = "exited" -> 0
      [] scanPc = "raised" -> 1
      [] OTHER -> -1

\* ------------------------------------------------------------------------
\* The Classifier run a second time on the same tree
\* ------------------------------------------------------------------------

\* A new process of scan.py after the first has exited.
Rerun ==
    /\ scanPc = "exited"
    /\ run = 1
    /\ run' = 2
    /\ firstOutput' = output
    /\ UNCHANGED <<pass, firstResult>>
    /\ scanPc' = "start"
    /\ fileLines' = <<>>
    /\ lineNo' = 1
    /\ has_real_content' = FALSE
    /\ wasteful' = <<>>
    /\ readFailed' = FALSE
    /\ pj' = 1
    /\ jsonl_files' = <<>>
    /\ fj' = 1
    /\ total' = 0
    /\ results' = <<>>
    /\ output' = <<>>
    /\ classified' = {}
    /\ UNCHANGED treeVars
    /\ UNCHANGED <<fsVars, delVars, histVars>>
    /\ UNCHANGED linVars

NextRescan ==
    \/ StartScan
    \/ NextProject
    \/ OpenFile
    \/ ReadLine
    \/ EndOfFile
    \/ Classify
    \/ NextFile
    \/ EndProject
    \/ PrintReport
    \/ Rerun

SpecRescan == InitTree /\ [][NextRescan]_vars

\* ------------------------------------------------------------------------
\* The pipeline: the Deleter run on the report the Classifier printed
\* ------------------------------------------------------------------------

\* delete.py, line 4: the report as the Deleter parses it. The Deleter reads
\* the keys and the session_ids; the names of the model hold no character
\* that JSON or a Python string literal escapes.
LoadedReport(res) ==
    [i \in DOMAIN res |-> ReportEntry(res[i].project_dir, res[i].session_ids)]

\* delete.py, lines 3-7: the Deleter starts with the report the Classifier
\* printed put in the place of $REPORT_JSON.
Handoff ==
    /\ scanPc = "exited"
    /\ pc = "idle"
    /\ output # <<>>
    /\ output[1].kind = "report"
    /\ report' = LoadedReport(output[1].report)
    /\ pc' = "load"
    /\ UNCHANGED <<fsVars, pi, si, index_data, deleted, errors>>
    /\ UNCHANGED histVars
    /\ UNCHANGED scanVars
    /\ UNCHANGED linVars

NextPipeline ==
    \/ StartScan
    \/ NextProject
    \/ OpenFile
    \/ ReadLine
    \/ EndOfFile
    \/ Classify
    \/ NextFile
    \/ EndProject
    \/ PrintReport
    \/ Handoff
    \/ LoadIndex
    \/ RemoveLog
    \/ RemoveCompanion
    \/ FilterIndex
    \/ WriteIndex
    \/ PrintResult

SpecPipeline == InitTree /\ [][NextPipeline]_vars

\* The orders os.listdir may give the names of p1 in when it may hold
\* a.jsonl.jsonl as well: the session logs in every order.
NameOrders ==
    {<<IndexName>> \o ls \o ds :
        ls \in Orders({LogName(f[2]) : f \in {g \in AllLogFiles : g[1] = "p1"}}),
        ds \in Orders(ProjectDirNames("p1"))}

\* The session logs of the trees with a.jsonl.jsonl: an empty log, a log
\* with an assistant event and a log with only a meta user event.
NameLogs ==
    {<<>>, <<Event("assistant")>>, <<UserEvent(TRUE, StrContent(<<Char>>))>>}

\* The trees whose one project p1 holds some of the logs a.jsonl, b.jsonl
\* and a.jsonl.jsonl, the names listed in any order.
NamesInit ==
    /\ base = BaseDir([p \in Projects |-> IF p = "p1" THEN "dir" ELSE "absent"])
    /\ logs \in SUBSET {f \in AllLogFiles : f[1] = "p1"}
    /\ dirs \in SUBSET CompanionDirs
    /\ indexFile \in
           {[p \in Projects |-> IF p = "p1" THEN c ELSE AbsentIndex] :
               c \in {AbsentIndex, JsonIndex(TRUE, <<Entry("a"), Entry("b")>>)}}
    /\ logText \in {t \in [AllLogFiles -> NameLogs] :
                        \A f \in AllLogFiles \ logs : t[f] = <<>>}
    /\ unreadable \in {u \in SUBSET logs : Cardinality(u) <= 1}
    /\ dirOrder \in {[p \in Projects |-> IF p = "p1" THEN o ELSE SomeOrder[p]] :
                        o \in IF Cardinality(logs) < 2
                              THEN {CHOOSE n \in NameOrders : TRUE}
                              ELSE NameOrders}

InitNames == NamesInit /\ ScanStart /\ scanPc = "start" /\ DeleterIdle /\ LinearIdle

SpecNames == InitNames /\ [][NextPipeline]_vars

\* The exit status of the Deleter: 0 after line 55, 1 after an exception
\* nothing catches, -1 while it runs.
DeleteExitStatus ==
    CASE pc = "done" -> 0
      [] pc = "raised" -> 1
      [] OTHER -> -1

Init == DeleterInit /\ ScanIdle /\ LinearIdle

Next ==
    \/ LoadIndex
    \/ RemoveLog
    \/ RemoveCompanion
    \/ FilterIndex
    \/ WriteIndex
    \/ PrintResult

Spec == Init /\ [][Next]_vars

\* Line 55: the object the Deleter prints.
DeleteResult(n, errs) == [deleted |-> n, errors |-> errs]

\* delete.py run a second time with the same report, on the file system as
\* the first run left it.
RerunDelete ==
    /\ pc = "done"
    /\ pass = 1
    /\ pass' = 2
    /\ firstResult' = <<DeleteResult(deleted, errors)>>
    /\ pc' = "load"
    /\ pi' = 1
    /\ si' = 1
    /\ index_data' = NoIndex
    /\ deleted' = 0
    /\ errors' = <<>>
    /\ start' = [logs |-> logs, dirs |-> dirs, indexFile |-> indexFile]
    /\ attempted' = {}
    /\ failed' = {}
    /\ removed' = {}
    /\ loaded' = {}
    /\ written' = {}
    /\ UNCHANGED <<fsVars, report, faults>>
    /\ UNCHANGED <<fileVars, scanPc, wasteful, treeVars, loopVars, classified>>
    /\ UNCHANGED <<run, firstOutput>>
    /\ UNCHANGED linVars

NextRedelete ==
    \/ LoadIndex
    \/ RemoveLog
    \/ RemoveCompanion
    \/ FilterIndex
    \/ WriteIndex
    \/ PrintResult
    \/ RerunDelete

SpecRedelete == Init /\ [][NextRedelete]_vars

\* The Deleter running on a report of any session identifiers.
InitAny == DeleterOn(AnyReports, LogFiles \cup {EmptyIdLog}) /\ ScanIdle /\ LinearIdle

SpecDeleteAny == InitAny /\ [][Next]_vars

\* ------------------------------------------------------------------------
\* linear.py: text
\* ------------------------------------------------------------------------

\* A text is the sequence of its characters.  str.lower() of one character.
LowerChar(c) ==
    LET upper == <<"A", "B", "C", "D", "E", "F", "G", "H", "I", "J", "K", "L",
                   "M", "N", "O", "P", "Q", "R", "S", "T", "U", "V", "W", "X",
                   "Y", "Z">>
        lower == <<"a", "b", "c", "d", "e", "f", "g", "h", "i", "j", "k", "l",
                   "m", "n", "o", "p", "q", "r", "s", "t", "u", "v", "w", "x",
                   "y", "z">>
    IN  IF \E i \in DOMAIN upper : upper[i] = c
        THEN lower[CHOOSE i \in DOMAIN upper : upper[i] = c]
        ELSE c

\* str.lower()
Lower(text) == [i \in DOMAIN text |-> LowerChar(text[i])]

\* needle in hay
Contains(hay, needle) ==
    \E i \in 0..(Len(hay) - Len(needle)) :
        SubSeq(hay, i + 1, i + Len(needle)) = needle

\* The first of the positions of a list that match, or 0: the element at
\* which a loop over the list returns.
FirstIndex(matching) ==
    IF matching = {} THEN 0
    ELSE CHOOSE i \in matching : \A j \in matching : i <= j

\* ------------------------------------------------------------------------
\* linear.py: what the issue tracker holds
\* ------------------------------------------------------------------------

\* Workflow states of one team.
MaxStates == 2

\* Labels of one team.
MaxLabels == 2

\* Names of workflow states: Done, Abandoned, Shipped, Todo.
StateNames ==
    {<<"D", "o", "n", "e">>,
     <<"A", "b", "a", "n", "d", "o", "n", "e", "d">>,
     <<"S", "h", "i", "p", "p", "e", "d">>,
     <<"T", "o", "d", "o">>}

StateTypes == {"completed", "canceled", "unstarted"}

\* The workflow states of a team, in the order the API returns them; the
\* id of a state is its position.
WorkflowStates ==
    UNION {{s \in [1..n -> [id : 1..n, name : StateNames, type : StateTypes]] :
                \A i \in 1..n : s[i].id = i} : n \in 0..MaxStates}

\* Names of labels: bug, Bug, bugfix, ui.
LabelNames ==
    {<<"b", "u", "g">>, <<"B", "u", "g">>, <<"b", "u", "g", "f", "i", "x">>, <<"u", "i">>}

\* The labels of a team, in the order the API returns them; the id of a
\* label is its position.
TeamLabels ==
    UNION {{l \in [1..n -> [id : 1..n, name : LabelNames]] :
                \A i \in 1..n : l[i].id = i} : n \in 0..MaxLabels}

\* The issues of the model.
Issues == {"A", "B"}

\* ------------------------------------------------------------------------
\* linear.py: the commands done, update and relate
\* ------------------------------------------------------------------------

\* The relation words given on the command line: the four of
\* RELATION_TYPES, one of them in capitals as well, and two others.
RelationWords ==
    {<<"b", "l", "o", "c", "k", "s">>,
     <<"b", "l", "o", "c", "k", "e", "d", "-", "b", "y">>,
     <<"r", "e", "l", "a", "t", "e", "s", "-", "t", "o">>,
     <<"d", "u", "p", "l", "i", "c", "a", "t", "e", "s">>,
     <<"B", "l", "o", "c", "k", "e", "d", "-", "B", "y">>,
     <<"r", "e", "l", "a", "t", "e", "d">>,
     <<"b", "l", "o", "c", "k", "e", "d">>}

\* A GraphQL request: the query or mutation, the id it is about and, for a
\* mutation, its input: the keys present and their values.
NoInput ==
    [keys |-> {}, stateId |-> 0, labelIds |-> <<>>, removedLabelIds |-> <<>>,
     issueId |-> "", relatedIssueId |-> "", type |-> ""]
Request(op, id, input) == [op |-> op, id |-> id, input |-> input]

\* The responses printed: format_success and format_error with its code.
Success == [success |-> TRUE, code |-> ""]
Failure(code) == [success |-> FALSE, code |-> code]

\* Lines 891-953: the command sends the requests of plan one after the
\* other and ends with outcome, the issue tracker then holding after; or a
\* request raises NETWORK_ERROR and the command ends there, a mutation that
\* raised not applied.
Finish(plan, outcome, after) ==
    \E failAt \in 0..Len(plan) :
        IF failAt = 0
        THEN /\ requests' = plan
             /\ reply' = <<outcome>>
             /\ remote' = after
        ELSE /\ requests' = SubSeq(plan, 1, failAt)
             /\ reply' = <<Failure("NETWORK_ERROR")>>
             /\ remote' = remote

\* The elements of a set of numbers in increasing order: the nodes of the
\* labels of an issue as the API lists them.
RECURSIVE Nodes(_)
Nodes(S) ==
    IF S = {} THEN <<>>
    ELSE LET least == CHOOSE x \in S : \A y \in S : x <= y
         IN  <<least>> \o Nodes(S \ {least})

\* The issue tracker after the mutation issueUpdate with the input: stateId
\* sets the state, labelIds sets the labels and removedLabelIds removes
\* labels.
ApplyUpdate(r, input) ==
    [r EXCEPT
        !.issueState = IF "stateId" \in input.keys THEN input.stateId ELSE @,
        !.issueLabels =
            (IF "labelIds" \in input.keys THEN Range(input.labelIds) ELSE @)
                \ (IF "removedLabelIds" \in input.keys
                   THEN Range(input.removedLabelIds) ELSE {})]

\* Lines 1552-1562: type_mapping
TypeMapping ==
    {<<<<"d", "o", "n", "e">>, "completed">>,
     <<<<"c", "o", "m", "p", "l", "e", "t", "e">>, "completed">>,
     <<<<"f", "i", "n", "i", "s", "h", "e", "d">>, "completed">>,
     <<<<"t", "o", "d", "o">>, "unstarted">>,
     <<<<"b", "a", "c", "k", "l", "o", "g">>, "backlog">>,
     <<<<"i", "n", " ", "p", "r", "o", "g", "r", "e", "s", "s">>, "started">>,
     <<<<"s", "t", "a", "r", "t", "e", "d">>, "started">>,
     <<<<"c", "a", "n", "c", "e", "l", "l", "e", "d">>, "canceled">>,
     <<<<"c", "a", "n", "c", "e", "l", "e", "d">>, "canceled">>}

\* Lines 1536-1574: find_state_by_name: the position of the state found, by
\* its name, by a part of its name or by its type, or 0 for STATE_NOT_FOUND.
FindStateByName(states, state_name) ==
    LET lower == Lower(state_name)
        exact == FirstIndex({i \in DOMAIN states : Lower(states[i].name) = lower})
        partial == FirstIndex({i \in DOMAIN states :
                                  Contains(Lower(states[i].name), lower)})
        mapped == {m \in TypeMapping : m[1] = lower}
        byType == IF mapped = {} THEN 0
                  ELSE FirstIndex({i \in DOMAIN states :
                                  \E m \in mapped : states[i].type = m[2]})
    IN  IF exact # 0 THEN exact
        ELSE IF partial # 0 THEN partial
        ELSE byType

\* Lines 2284-2313 and 1576-1590: the command done: mark_done fetches the
\* issue, finds the state named "done" among the states of its team and
\* updates the issue with the id of that state.
MarkDone ==
    /\ cmd.name = "done"
    /\ reply = <<>>
    /\ LET getIssue == Request("issue", cmd.issue_id, NoInput)
           getStates == Request("teamStates", "team", NoInput)
           found == FindStateByName(remote.states, <<"d", "o", "n", "e">>)
           input == [NoInput EXCEPT !.keys = {"stateId"}, !.stateId = found]
           update == Request("issueUpdate", cmd.issue_id, input)
       IN  IF ~api_key
           THEN Finish(<<>>, Failure("MISSING_API_KEY"), remote)
           ELSE IF cmd.issue_id \notin remote.issues
           THEN Finish(<<getIssue>>, Failure("ISSUE_NOT_FOUND"), remote)
           ELSE IF found = 0
           THEN Finish(<<getIssue, getStates>>, Failure("STATE_NOT_FOUND"), remote)
           ELSE Finish(<<getIssue, getStates, update>>, Success,
                       ApplyUpdate(remote, input))
    /\ UNCHANGED <<api_key, cmd>>
    /\ UNCHANGED <<fsVars, delVars, histVars, scanVars>>

\* Lines 1044-1064: find_label_by_name: the position of the label found, by
\* its name or by a part of its name, or 0 for LABEL_NOT_FOUND.
FindLabelByName(labels, label_name) ==
    LET lower == Lower(label_name)
        exact == FirstIndex({i \in DOMAIN labels : Lower(labels[i].name) = lower})
        partial == FirstIndex({i \in DOMAIN labels :
                                  Contains(Lower(labels[i].name), lower)})
    IN  IF exact # 0 THEN exact ELSE partial

\* Line 1068: resolve_label_names
ResolveLabelNames(labels, names) ==
    [i \in DOMAIN names |-> FindLabelByName(labels, names[i])]

\* Every current label sent for removal, those of the new set as well.
RemovedLabelIdsAll(current, label_ids) == current

\* Lines 2220-2222: the current labels that are not in the new set.
RemovedLabelIds(current, label_ids) ==
    SelectSeq(current, LAMBDA lid : lid \notin Range(label_ids))

\* Lines 1497-1512: input_data of update_issue: a key is present when its
\* argument is given and, for the lists of labels, not empty.
UpdateInput(title, label_ids, removed_label_ids) ==
    [NoInput EXCEPT
        !.keys = (IF title THEN {"title"} ELSE {})
                    \cup (IF removed_label_ids # <<>> THEN {"removedLabelIds"} ELSE {})
                    \cup (IF label_ids # <<>> THEN {"labelIds"} ELSE {}),
        !.labelIds = label_ids,
        !.removedLabelIds = removed_label_ids]

\* Lines 2193-2282 and 1481-1534: the command update with --title, --label
\* and --no-labels: with a label option the issue is fetched for its
\* current labels and the names are resolved one by one; update_issue sends
\* the mutation unless there is no field to update.
UpdateIssue ==
    /\ cmd.name = "update"
    /\ reply = <<>>
    /\ LET labelOption == cmd.no_labels \/ cmd.label # <<>>
           getIssue == Request("issue", cmd.issue_id, NoInput)
           getLabels == Request("teamLabels", "team", NoInput)
           current == Nodes(remote.issueLabels)
           resolved == ResolveLabelNames(remote.labels, cmd.label)
           bad == FirstIndex({i \in DOMAIN resolved : resolved[i] = 0})
           label_ids == IF cmd.no_labels THEN <<>> ELSE resolved
           removed_label_ids ==
               IF cmd.no_labels THEN current
               ELSE IF cmd.label # <<>>
               THEN RemovedLabelIds(current, label_ids)
               ELSE <<>>
           input == UpdateInput(cmd.title, label_ids, removed_label_ids)
           update == Request("issueUpdate", cmd.issue_id, input)
           fetched == IF labelOption THEN <<getIssue>> ELSE <<>>
           lookups == IF cmd.no_labels THEN <<>>
                      ELSE [i \in 1..(IF bad # 0 THEN bad ELSE Len(cmd.label))
                                |-> getLabels]
       IN  IF ~api_key
           THEN Finish(<<>>, Failure("MISSING_API_KEY"), remote)
           ELSE IF labelOption /\ cmd.issue_id \notin remote.issues
           THEN Finish(<<getIssue>>, Failure("ISSUE_NOT_FOUND"), remote)
           ELSE IF ~cmd.no_labels /\ bad # 0
           THEN Finish(fetched \o lookups, Failure("LABEL_NOT_FOUND"), remote)
           ELSE IF input.keys = {}
           THEN Finish(fetched \o lookups, Failure("INVALID_INPUT"), remote)
           ELSE IF cmd.issue_id \notin remote.issues
           THEN Finish(fetched \o lookups \o <<update>>, Failure("API_ERROR"),
                       remote)
           ELSE Finish(fetched \o lookups \o <<update>>, Success,
                       ApplyUpdate(remote, input))
    /\ UNCHANGED <<api_key, cmd>>
    /\ UNCHANGED <<fsVars, delVars, histVars, scanVars>>

\* Lines 2465-2470: RELATION_TYPES
RELATION_TYPES ==
    {<<<<"b", "l", "o", "c", "k", "s">>, "blocks">>,
     <<<<"b", "l", "o", "c", "k", "e", "d", "-", "b", "y">>, "blocks">>,
     <<<<"r", "e", "l", "a", "t", "e", "s", "-", "t", "o">>, "related">>,
     <<<<"d", "u", "p", "l", "i", "c", "a", "t", "e", "s">>, "duplicate">>}

\* The source and the target never flipped.
RelationEndsAsGiven(relation_lower, issue_id, target_id) ==
    [source |-> issue_id, target |-> target_id]

\* Lines 2513-2517: the source and the target, flipped for "blocked-by".
RelationEnds(relation_lower, issue_id, target_id) ==
    IF relation_lower = <<"b", "l", "o", "c", "k", "e", "d", "-", "b", "y">>
    THEN [source |-> target_id, target |-> issue_id]
    ELSE [source |-> issue_id, target |-> target_id]

\* Lines 2511-2519 and 1675-1679: the input of the mutation
\* issueRelationCreate for a command line relate issue_id relation
\* target_id with a supported relation; the id of an issue of the model is
\* its identifier.
RelationInput(issue_id, relation, target_id) ==
    LET lower == Lower(relation)
        ends == RelationEnds(lower, issue_id, target_id)
    IN  [NoInput EXCEPT
            !.keys = {"issueId", "relatedIssueId", "type"},
            !.issueId = ends.source,
            !.relatedIssueId = ends.target,
            !.type = (CHOOSE m \in RELATION_TYPES : m[1] = lower)[2]]

\* The relation the issue tracker creates for the input of the mutation.
RelationOf(input) ==
    [type |-> input.type, issueId |-> input.issueId,
     relatedIssueId |-> input.relatedIssueId]

\* Lines 2482-2531 and 1652-1696: the command relate: an unknown relation
\* is refused; create_relation fetches the source and the target and sends
\* the mutation.
Relate ==
    /\ cmd.name = "relate"
    /\ reply = <<>>
    /\ LET lower == Lower(cmd.relation)
           known == \E m \in RELATION_TYPES : m[1] = lower
           input == RelationInput(cmd.issue_id, cmd.relation, cmd.target_id)
           getSource == Request("issue", input.issueId, NoInput)
           getTarget == Request("issue", input.relatedIssueId, NoInput)
           create == Request("issueRelationCreate", "", input)
       IN  IF ~api_key
           THEN Finish(<<>>, Failure("MISSING_API_KEY"), remote)
           ELSE IF ~known
           THEN Finish(<<>>, Failure("INVALID_INPUT"), remote)
           ELSE IF input.issueId \notin remote.issues
           THEN Finish(<<getSource>>, Failure("ISSUE_NOT_FOUND"), remote)
           ELSE IF input.relatedIssueId \notin remote.issues
           THEN Finish(<<getSource, getTarget>>, Failure("ISSUE_NOT_FOUND"),
                       remote)
           ELSE Finish(<<getSource, getTarget, create>>, Success,
                       [remote EXCEPT
                           !.relations = @ \cup {RelationOf(input)}])
    /\ UNCHANGED <<api_key, cmd>>
    /\ UNCHANGED <<fsVars, delVars, histVars, scanVars>>

\* The label names given with --label.
GivenLabels ==
    {<<"b", "u", "g">>, <<"u", "i">>}

\* The command lines and, for each, what the issue tracker holds: for done
\* the workflow states of the team, for update the labels of the team and
\* of the issue, one of them (9) a label of no team.
LinearStart ==
    /\ api_key \in BOOLEAN
    /\ cmd \in {DoneCmd("A")}
                \cup {UpdateCmd("A", l, n, t) :
                        l \in ListsOver(GivenLabels, 2), n \in BOOLEAN,
                        t \in BOOLEAN}
                \cup {RelateCmd(a, r, b) :
                        a \in Issues, r \in RelationWords, b \in Issues}
    /\ remote \in
          CASE cmd.name = "done" ->
                  {Remote(is, st, <<>>, {}) :
                      is \in {{}, Issues}, st \in WorkflowStates}
            [] cmd.name = "update" ->
                  {Remote(is, <<>>, ls, il) :
                      is \in {{}, Issues}, ls \in TeamLabels,
                      il \in SUBSET ((1..MaxLabels) \cup {9})}
            [] OTHER ->
                  {Remote(is, <<>>, <<>>, {}) : is \in SUBSET Issues}
    /\ requests = <<>>
    /\ reply = <<>>

InitLinear ==
    /\ LinearStart
    /\ logs = {}
    /\ dirs = {}
    /\ indexFile = [p \in Projects |-> AbsentIndex]
    /\ DeleterIdle
    /\ ScanIdle

NextLinear ==
    \/ MarkDone
    \/ UpdateIssue
    \/ Relate

SpecLinear == InitLinear /\ [][NextLinear]_vars

\* ------------------------------------------------------------------------
\* Properties of the Deleter
\* ------------------------------------------------------------------------

\* <<i, k>>: the k-th session identifier listed for the i-th project.
Listings ==
    UNION {{<<i, k>> : k \in DOMAIN report[i].session_ids} : i \in DOMAIN report}

ProjectOf(l) == report[l[1]].project_dir
IdOf(l) == report[l[1]].session_ids[l[2]]
FileOf(l) == <<ProjectOf(l), IdOf(l)>>

\* The index file holds an entry for session id.
HasEntry(content, id) ==
    /\ content.kind = "json"
    /\ \E k \in DOMAIN content.entries : content.entries[k].sessionId = id

Occurrences(seq, x) == Cardinality({k \in DOMAIN seq : seq[k] = x})

\* C1 as stated: after the Deleter has run, for every listed session of every
\* project no log file and no companion directory exists, and the rewritten
\* index holds no entry for it.
DeletionCompleteness ==
    pc = "done" =>
        \A l \in Listings :
            /\ FileOf(l) \notin logs
            /\ FileOf(l) \notin dirs
            /\ ProjectOf(l) \in written =>
                   ~HasEntry(indexFile[ProjectOf(l)], IdOf(l))

\* C1 amended: after the Deleter has run, for every listed session the log
\* file is gone unless errors names its failed removal, the companion
\* directory is gone unless errors names its failed removal, and an index
\* that was written back holds no entry for the session.
DeletionCompleteUnlessRaised ==
    pc = "done" =>
        \A l \in Listings :
            /\ FileOf(l) \in logs =>
                   DeleteError(ProjectOf(l), IdOf(l)) \in Range(errors)
            /\ FileOf(l) \in dirs =>
                   DeleteDirError(ProjectOf(l), IdOf(l)) \in Range(errors)
            /\ ProjectOf(l) \in written =>
                   ~HasEntry(indexFile[ProjectOf(l)], IdOf(l))

\* A run that removed the log file, the companion directory and the index
\* entry of one listed session and failed to remove the log file of another.
DeletionCompleteWitness ==
    /\ pc = "done"
    /\ \E l, m \in Listings :
          /\ FileOf(l) \in start.logs \ logs
          /\ FileOf(l) \in start.dirs \ dirs
          /\ HasEntry(start.indexFile[ProjectOf(l)], IdOf(l))
          /\ ProjectOf(l) \in written
          /\ FileOf(m) \in logs

\* C2 as stated: after a deletion pass the index on disk holds no entry for
\* a session whose log file the pass removed, also when the index could not
\* be read or written back.
IndexConsistency ==
    pc = "done" =>
        \A file \in removed : ~HasEntry(indexFile[file[1]], file[2])

\* C2 amended: after a deletion pass the index on disk holds an entry for a
\* session whose log file the pass removed only if the index was not loaded
\* or errors names the failed write of that index.
IndexConsistentUnlessNotRewritten ==
    pc = "done" =>
        \A file \in removed :
            HasEntry(indexFile[file[1]], file[2]) =>
                \/ file[1] \notin loaded
                \/ WriteIndexError(file[1]) \in Range(errors)

\* A pass that removed a log file whose session the index listed, and wrote
\* the index back.
IndexConsistentWitness ==
    /\ pc = "done"
    /\ \E file \in removed :
          /\ HasEntry(start.indexFile[file[1]], file[2])
          /\ file[1] \in written

\* C4: when the Deleter ends, the removal of the log file, the removal of
\* the companion directory and the index filtering were run for every
\* listing of the report, and errors holds exactly one entry for each failed
\* removal of a log file.
PartialFailureIsolation ==
    pc = "done" =>
        /\ \A l \in Listings :
              \A step \in {"log", "dir", "filter"} :
                  <<step, l[1], l[2]>> \in attempted
        /\ \A l \in Listings :
              Occurrences(errors, DeleteError(ProjectOf(l), IdOf(l)))
                  = Cardinality({m \in Listings :
                                    /\ FileOf(m) = FileOf(l)
                                    /\ <<"log", m[1], m[2]>> \in failed})

\* A run in which the removal of one log file failed and the log file of a
\* later listing was removed.
PartialFailureWitness ==
    /\ pc = "done"
    /\ \E l, m \in Listings :
          /\ <<"log", l[1], l[2]>> \in failed
          /\ l[1] < m[1] \/ (l[1] = m[1] /\ l[2] < m[2])
          /\ FileOf(m) \in removed
          /\ Len(errors) = 1

\* C10: while a project is processed, the loaded index holds no entry for a
\* listed session whose filtering step was run, whatever became of its log
\* file and companion directory.
IndexFilterUnconditional ==
    pc \in {"rmlog", "rmdir", "filter", "write"} =>
        \A k \in DOMAIN report[pi].session_ids :
            <<"filter", pi, k>> \in attempted =>
                ~HasEntry(index_data, report[pi].session_ids[k])

\* The sessions of a project are done; the index was loaded with an entry
\* for a session whose log file could not be removed, and for one whose log
\* file did not exist.
IndexFilterWitness ==
    /\ pc = "write"
    /\ index_data.kind = "json"
    /\ \E j, k \in DOMAIN report[pi].session_ids :
          /\ <<"log", pi, j>> \in failed
          /\ HasEntry(start.indexFile[project_dir], report[pi].session_ids[j])
          /\ <<project_dir, report[pi].session_ids[j]>> \in logs
          /\ <<project_dir, report[pi].session_ids[k]>> \notin start.logs
          /\ HasEntry(start.indexFile[project_dir], report[pi].session_ids[k])

\* C21: when the Deleter ends after the write-back of a project's index
\* raised, errors holds exactly one string for that index, the index file
\* is as it was before the run or truncated and does not hold the filtered
\* index, every log file removed is still gone and every companion
\* directory whose removal succeeded is still gone, deleted counts the log
\* files removed, and the steps were run for every listing of every project
\* and the index of every later project that was loaded was written back
\* or has its own error string.
IndexWriteFailureIsolated ==
    pc = "done" =>
        \A i \in DOMAIN report :
            <<"index", i, 0>> \in failed =>
                LET p == report[i].project_dir
                IN  /\ Occurrences(errors, WriteIndexError(p)) = 1
                    /\ p \notin written
                    /\ indexFile[p] \in {start.indexFile[p], CorruptIndex}
                    /\ removed \cap logs = {}
                    /\ \A l \in Listings :
                          (FileOf(l) \in dirs) =>
                              \E m \in Listings :
                                  /\ FileOf(m) = FileOf(l)
                                  /\ <<"dir", m[1], m[2]>> \in failed
                    /\ deleted = Cardinality(removed)
                    /\ \A l \in Listings :
                          \A step \in {"log", "dir", "filter"} :
                              <<step, l[1], l[2]>> \in attempted
                    /\ \A j \in DOMAIN report :
                          (j > i /\ report[j].project_dir \in loaded) =>
                              \/ report[j].project_dir \in written
                              \/ <<"index", j, 0>> \in failed

\* The write-back of the first project's index raised after a listed log
\* file of that project, whose entry the index held, was removed, and a log
\* file of the second project was removed afterwards.
IndexWriteFailureWitness ==
    /\ pc = "done"
    /\ Len(report) = 2
    /\ <<"index", 1, 0>> \in failed
    /\ \E l, m \in Listings :
          /\ l[1] = 1
          /\ m[1] = 2
          /\ FileOf(l) \in removed
          /\ HasEntry(start.indexFile[ProjectOf(l)], IdOf(l))
          /\ FileOf(m) \in removed
          /\ ProjectOf(m) \in written

\* The report lists the session of file f under f's project.
ListedFile(f) ==
    \E i \in DOMAIN report :
        /\ report[i].project_dir = f[1]
        /\ \E k \in DOMAIN report[i].session_ids : report[i].session_ids[k] = f[2]

\* The report names project p.
Named(p) == \E i \in DOMAIN report : report[i].project_dir = p

\* C25: at every point of a run of the Deleter, every log file and every
\* companion directory that existed at the start and whose session the
\* report does not list under its project still exists; an index that was
\* written back is the index of the start with, for entries, the entries
\* whose sessionId the report does not list, in their order; and the
\* directory and the index of a project the report does not name are as
\* they were.
DeleterFrame ==
    pc # "idle" =>
        /\ \A f \in start.logs : ~ListedFile(f) => f \in logs
        /\ \A f \in start.dirs : ~ListedFile(f) => f \in dirs
        /\ \A p \in written :
              indexFile[p] =
                  [start.indexFile[p] EXCEPT
                      !.entries = SelectSeq(@, LAMBDA e :
                                      ~ListedFile(<<p, e.sessionId>>))]
        /\ \A p \in Projects :
              ~Named(p) => /\ indexFile[p] = start.indexFile[p]
                           /\ base.kind[p] = "dir"

\* C26: when a run of the Deleter ends and no file operation has raised,
\* errors is empty and deleted is the number of the listed log files that
\* existed when the run started, a file listed twice counted once; and when
\* it is the second run with the same report, deleted is 0 and the log
\* files, the companion directories and the index files are as the first
\* run left them.
DeleterIdempotence ==
    (pc = "done" /\ faults = 0) =>
        /\ errors = <<>>
        /\ deleted = Cardinality({FileOf(l) : l \in Listings} \cap start.logs)
        /\ pass = 2 =>
              /\ firstResult[1].errors = <<>>
              /\ deleted = 0
              /\ logs = start.logs
              /\ dirs = start.dirs
              /\ indexFile = start.indexFile

\* The second run has ended on a report that lists one session twice; the
\* first run removed its log file, and the project's index was written back
\* by the second run as well.
DeleterIdempotenceWitness ==
    /\ pc = "done"
    /\ faults = 0
    /\ pass = 2
    /\ firstResult[1].deleted = 1
    /\ written # {}
    /\ \E l, m \in Listings : l # m /\ FileOf(l) = FileOf(m)

\* C22: at every point of a run of the Deleter, deleted is the number of
\* log files the run has removed, which are the log files that existed at
\* the start and exist no more; so the count printed is not raised by the
\* removal of a companion directory, by a listed session without a log
\* file, or by a removal that raised.
DeletedCountsRemovedLogs ==
    pc # "idle" =>
        /\ removed = start.logs \ logs
        /\ deleted = Cardinality(removed)

\* A run that removed a log file and its companion directory and failed to
\* remove the log file of another listing has ended with deleted = 1.
DeletedCountWitness ==
    /\ pc = "done"
    /\ deleted = 1
    /\ \E l, m \in Listings :
          /\ FileOf(l) \in removed
          /\ FileOf(l) \in start.dirs \ dirs
          /\ <<"log", m[1], m[2]>> \in failed

\* ------------------------------------------------------------------------
\* Properties of the Classifier
\* ------------------------------------------------------------------------

\* The log was read to its end or to a break, and lines 83-85 have run.
Scanned == scanPc = "next" /\ ~readFailed

IsWasteful == ScannedId \in Range(wasteful)

IsEvent(line) == line.json = "object"

IsUserEvent(line) == IsEvent(line) /\ line.type = "user"

\* The string holds <command-name>/NAME</command-name> for a NAME of the
\* enumerated command set.
HasLocalCommandTag(str) ==
    \E i \in DOMAIN str : str[i] \in {CommandTag(n) : n \in LocalCommands}

\* The string starts with the start tag and ends with the end tag.
IsWrapper(str) ==
    /\ Len(str) >= 2
    /\ str[1] = StdoutOpen
    /\ str[Len(str)] = StdoutClose

\* Every event of the log is of a type other than assistant and user, or is
\* a non-meta user event whose content is a string that satisfies P, and
\* there is such a user event.
OnlyUserContent(P(_)) ==
    /\ \E k \in DOMAIN fileLines : IsUserEvent(fileLines[k])
    /\ \A k \in DOMAIN fileLines :
          IsEvent(fileLines[k]) =>
              \/ fileLines[k].type \notin {"assistant", "user"}
              \/ /\ fileLines[k].type = "user"
                 /\ ~fileLines[k].isMeta
                 /\ fileLines[k].content.is = "str"
                 /\ P(fileLines[k].content.str)

\* C3: a log with an event of type assistant, wherever it stands, is never
\* listed as wasteful.
AssistantNeverWasteful ==
    (\E k \in DOMAIN fileLines :
        IsEvent(fileLines[k]) /\ fileLines[k].type = "assistant")
            => ~IsWasteful

\* A scanned log whose assistant event follows a user event that is a local
\* command.
AssistantWitness ==
    /\ Scanned
    /\ has_real_content
    /\ fileLines = <<UserEvent(FALSE, StrContent(<<CommandTag("clear")>>)),
                     Event("assistant")>>

\* A qualifying event: an assistant event, or a non-meta user event whose
\* content is a list or a string that is not empty after trimming and
\* matches neither pattern.
Qualifying(line) ==
    /\ IsEvent(line)
    /\ \/ line.type = "assistant"
       \/ /\ line.type = "user"
          /\ ~line.isMeta
          /\ \/ line.content.is = "list"
             \/ /\ line.content.is = "str"
                /\ Strip(line.content.str) # <<>>
                /\ ~HasLocalCommandTag(line.content.str)
                /\ ~LocalCmdStdoutMatch(line.content.str)

\* C5: a log that was read is listed as wasteful exactly if none of its
\* lines is a qualifying event.
WastefulIffNoQualifyingEvent ==
    Scanned =>
        (IsWasteful <=> ~\E k \in DOMAIN fileLines : Qualifying(fileLines[k]))

\* A wasteful log of two skipped lines: one that is not JSON, and a user
\* event whose content is whitespace.
WastefulWitness ==
    /\ Scanned
    /\ IsWasteful
    /\ fileLines = <<TextLine("invalid"), UserEvent(FALSE, StrContent(<<Space>>))>>

\* C6: a log whose events are user events flagged as meta and events of the
\* structural types is listed as wasteful.
MetaExclusion ==
    (/\ Scanned
     /\ \A k \in DOMAIN fileLines :
           IsEvent(fileLines[k]) =>
               \/ fileLines[k].type \in NonContentTypes
               \/ fileLines[k].type = "user" /\ fileLines[k].isMeta)
        => IsWasteful

\* A wasteful log of a meta user event with real text and a structural event.
MetaExclusionWitness ==
    /\ Scanned
    /\ IsWasteful
    /\ fileLines = <<UserEvent(TRUE, StrContent(<<Char>>)), Event("summary")>>

\* C7: a log whose single event is a non-meta user event with list content
\* is meaningful.
ToolResultInclusion ==
    (/\ Scanned
     /\ Cardinality({k \in DOMAIN fileLines : IsEvent(fileLines[k])}) = 1
     /\ \E k \in DOMAIN fileLines : fileLines[k] = UserEvent(FALSE, ListContent))
        => has_real_content /\ ~IsWasteful

\* A scanned log that is one user event with list content.
ToolResultWitness ==
    /\ Scanned
    /\ has_real_content
    /\ fileLines = <<UserEvent(FALSE, ListContent)>>

\* C8: a log whose only user content holds a local slash-command tag is
\* listed as wasteful.
LocalCommandExclusion ==
    Scanned /\ OnlyUserContent(HasLocalCommandTag) => IsWasteful

\* A wasteful log of a structural event and the user content
\* <command-name>/clear</command-name>.
LocalCommandWitness ==
    /\ Scanned
    /\ IsWasteful
    /\ fileLines = <<Event("system"),
                     UserEvent(FALSE, StrContent(<<CommandTag("clear")>>))>>

\* C9 as stated: a log whose only user content is, after trimming, a
\* local-command-stdout wrapper is listed as wasteful.
TrimmedWrapperExclusion ==
    Scanned /\ OnlyUserContent(LAMBDA str : IsWrapper(Strip(str))) => IsWasteful

\* The untrimmed string is a wrapper, or a wrapper and one newline.
IsRawWrapper(str) ==
    \/ IsWrapper(str)
    \/ /\ str # <<>>
       /\ str[Len(str)] = Newline
       /\ IsWrapper(SubSeq(str, 1, Len(str) - 1))

\* C9 amended: a log whose only user content is, untrimmed, a wrapper that
\* at most one newline follows is listed as wasteful; a log whose single
\* line is a user event that is a wrapper only after trimming, and holds no
\* local slash-command tag, is meaningful.
RawWrapperExclusion ==
    /\ Scanned /\ OnlyUserContent(IsRawWrapper) => IsWasteful
    /\ \A str \in Strings(MaxStr) :
          (/\ Scanned
           /\ fileLines = <<UserEvent(FALSE, StrContent(str))>>
           /\ IsWrapper(Strip(str))
           /\ ~IsRawWrapper(str)
           /\ ~HasLocalCommandTag(str))
              => has_real_content /\ ~IsWasteful

\* A wasteful log of the one user content
\* <local-command-stdout>x</local-command-stdout>.
RawWrapperWitness ==
    /\ Scanned
    /\ IsWasteful
    /\ fileLines =
           <<UserEvent(FALSE, StrContent(<<StdoutOpen, Char, StdoutClose>>))>>

\* ------------------------------------------------------------------------
\* Properties of the Classifier over a directory tree
\* ------------------------------------------------------------------------

\* Line 94 has printed the report.
Printed == scanPc = "exited" /\ base.exists

\* The log file a name of a project stands for.
LogOf(p, f) == CHOOSE g \in AllLogFiles : g[1] = p /\ LogName(g[2]) = f

\* The names of the logs of project p this run skipped on an IOError.
SkippedIn(p) == {c[2] : c \in {d \in classified : d[1] = p /\ d[3] = "skipped"}}

\* results lists the session id for project p.
ListedWasteful(p, id) ==
    \E i \in DOMAIN results :
        /\ results[i].project_dir = p
        /\ id \in Range(results[i].session_ids)

\* Every log that was gone through without an IOError got the verdict its
\* own lines give it.
OthersUnaffected ==
    \A c \in classified :
        c[3] # "skipped" =>
            c[3] = IF HasRealContent(logText[LogOf(c[1], c[2])])
                   THEN "meaningful" ELSE "wasteful"

\* C11: the Classifier does not end with an exception over a log it cannot
\* read; in its report a log that could not be opened or read is never
\* listed as wasteful, the other logs have the verdict of their own lines,
\* and total does not count the log.
UnreadableExcluded ==
    /\ scanPc # "raised"
    /\ Printed =>
        /\ \A p \in Projects : \A f \in SkippedIn(p) :
              ~ListedWasteful(p, ReplaceJsonl(f))
        /\ OthersUnaffected
        /\ \A i \in DOMAIN results :
              results[i].total =
                  Len(JsonlFiles(results[i].project_dir))
                      - Cardinality(SkippedIn(results[i].project_dir))

\* C12: for every project of the report, total is the number of the names
\* ending in .jsonl that the project directory holds, read or not.
TotalCountsDiscovered ==
    Printed =>
        \A i \in DOMAIN results :
            results[i].total =
                Cardinality({f \in logs : f[1] = results[i].project_dir})

\* A report whose project has two logs, one that open() is denied and one
\* that is wasteful, and a total of 2.
TotalWitness ==
    /\ Printed
    /\ \E i \in DOMAIN results :
          /\ results[i].total = 2
          /\ results[i].wasteful = 1
          /\ \E f \in unreadable : f[1] = results[i].project_dir

\* C13: a name of the base directory is a key of the report exactly if it
\* is a directory with a log that was read and found wasteful; no key
\* occurs twice.
ProjectListedIffWasteful ==
    Printed =>
        /\ \A p \in Projects :
              (\E i \in DOMAIN results : results[i].project_dir = p)
                  <=> /\ base.kind[p] = "dir"
                      /\ \E f \in logs :
                            /\ f[1] = p
                            /\ LogName(f[2]) \notin SkippedIn(p)
                            /\ ~HasRealContent(logText[f])
        /\ \A i, k \in DOMAIN results :
              results[i].project_dir = results[k].project_dir => i = k

\* A report that leaves out a project whose logs are all meaningful and
\* holds a project with a wasteful log.
ProjectListedWitness ==
    /\ Printed
    /\ {f \in logs : f[1] = "p1"} # {}
    /\ \A f \in logs : f[1] = "p1" => HasRealContent(logText[f])
    /\ Len(results) = 1
    /\ results[1].project_dir = "p2"

ClassifierReadOnly ==
    [][/\ logs' = logs
       /\ logText' = logText
       /\ dirs' = dirs
       /\ indexFile' = indexFile
       /\ base' = base]_vars

\* A finished scan of a tree with every log, a companion directory and an
\* index file, which found wasteful logs in both projects.
ReadOnlyWitness ==
    /\ Printed
    /\ logs = LogFiles
    /\ dirs = CompanionDirs
    /\ indexFile["p1"].kind = "json"
    /\ Len(results) = 2
    /\ \E f \in logs : logText[f] # <<>> /\ <<f[1], LogName(f[2]), "meaningful">> \in classified

\* C18: without the base directory the Classifier prints the one object
\* {"error": "No projects directory found"}, exits with status 0, and goes
\* through no project and no log.
MissingBaseSignal ==
    ~base.exists =>
        /\ scanPc \in {"start", "exited"}
        /\ classified = {}
        /\ results = <<>>
        /\ scanPc = "exited" =>
              /\ output = <<MissingBaseOutput>>
              /\ output[1].kind = "error"
              /\ ScanExitStatus = 0

\* The Classifier has exited where there is no base directory.
MissingBaseWitness ==
    /\ ~base.exists
    /\ scanPc = "exited"
    /\ Len(output) = 1

\* The lines of a log without the blank lines and the lines that are not
\* JSON.
WithoutSkippedLines(lines) ==
    SelectSeq(lines, LAMBDA l : l.json \notin {"blank", "invalid"})

\* C19: a line that is not JSON does not end the scan with an exception,
\* and a log that was read is listed as wasteful exactly if the same log
\* without its blank lines and its lines that are not JSON has no real
\* content.
InvalidLinesSkipped ==
    /\ (\A k \in DOMAIN fileLines :
           fileLines[k].json \in {"blank", "invalid", "object"})
          => scanPc # "raised"
    /\ Scanned =>
          /\ has_real_content = HasRealContent(fileLines)
          /\ IsWasteful <=> ~HasRealContent(WithoutSkippedLines(fileLines))

\* A meaningful log whose real user content follows a line that is not
\* JSON.
InvalidLinesWitness ==
    /\ Scanned
    /\ has_real_content
    /\ ~IsWasteful
    /\ fileLines = <<TextLine("invalid"), UserEvent(FALSE, StrContent(<<Char>>))>>

\* C20: the Deleter does not end with an exception over an index file it
\* cannot load; when it ends, for a project of the report whose index file
\* was missing, was not JSON, was not text or could not be read, the index
\* file is as it was and was not written, errors names no failed write of
\* it, and the removal of the log file and of the companion directory was
\* run for each of its sessions, a log file being left only where its
\* removal raised; the steps were run for the listings of every other
\* project as well.
CorruptIndexTreatedAsAbsent ==
    /\ pc # "raised"
    /\ pc = "done" =>
        /\ \A i \in DOMAIN report :
              LET p == report[i].project_dir
              IN  (\/ start.indexFile[p].kind \in {"absent", "corrupt", "undecodable"}
                   \/ p \notin loaded)
                    => /\ indexFile[p] = start.indexFile[p]
                       /\ p \notin written
                       /\ WriteIndexError(p) \notin Range(errors)
                       /\ \A k \in DOMAIN report[i].session_ids :
                             /\ <<"log", i, k>> \in attempted
                             /\ <<"dir", i, k>> \in attempted
                             /\ <<p, report[i].session_ids[k]>> \in logs =>
                                   DeleteError(p, report[i].session_ids[k])
                                       \in Range(errors)
        /\ \A l \in Listings :
              \A step \in {"log", "dir", "filter"} :
                  <<step, l[1], l[2]>> \in attempted

\* C17: no exception escapes the Classifier or the Deleter, whatever the
\* session logs, the index files and the report hold and whatever the file
\* operations do: neither process ends with a traceback and exit status 1.
NoExceptionEscapes ==
    /\ scanPc # "raised"
    /\ ScanExitStatus # 1
    /\ pc # "raised"
    /\ DeleteExitStatus # 1

\* C23: the identifier recorded for a wasteful session, followed by
\* ".jsonl", is the name of the file scanned, also for a name that holds
\* ".jsonl" more than once.
IdentifierPlusExtensionIsName ==
    (scanPc = "next" /\ <<ScanProject, fname, "wasteful">> \in classified) =>
        /\ wasteful # <<>>
        /\ wasteful[Len(wasteful)] \o ".jsonl" = Join(fname)

\* ------------------------------------------------------------------------
\* Properties of the pipeline
\* ------------------------------------------------------------------------

\* C27: for every project entry of results, and so of every report
\* printed, wasteful is the length of session_ids, session_ids holds no
\* identifier twice, and 1 <= wasteful <= total.
ReportWellFormed ==
    \A i \in DOMAIN results :
        /\ results[i].wasteful = Len(results[i].session_ids)
        /\ \A j, k \in DOMAIN results[i].session_ids :
              results[i].session_ids[j] = results[i].session_ids[k] => j = k
        /\ 1 <= results[i].wasteful
        /\ results[i].wasteful <= results[i].total

\* C24: every log file the Deleter removes, run on the report the
\* Classifier printed for the tree, is one the Classifier classified
\* wasteful, and none it classified meaningful or skipped as unreadable.
PipelineSafety ==
    \A f \in removed :
        /\ <<f[1], LogName(f[2]), "wasteful">> \in classified
        /\ <<f[1], LogName(f[2]), "meaningful">> \notin classified
        /\ <<f[1], LogName(f[2]), "skipped">> \notin classified

\* The tree of the scenario: the one project with sessions is p1, with the
\* logs a (an assistant event) and b (only a meta user event), both
\* readable, no companion directory, and an index with the entries a and b.
ScenarioTree ==
    /\ base.exists
    /\ base.kind["p1"] = "dir"
    /\ start.logs = {<<"p1", "a">>, <<"p1", "b">>}
    /\ logText[<<"p1", "a">>] = <<Event("assistant")>>
    /\ logText[<<"p1", "b">>] = <<UserEvent(TRUE, StrContent(<<Char>>))>>
    /\ unreadable = {}
    /\ start.dirs = {}
    /\ start.indexFile["p1"] = JsonIndex(TRUE, <<Entry("a"), Entry("b")>>)

\* C16: on the tree of the scenario, when no file operation raises, the
\* Classifier prints {p1: {total: 2, wasteful: 1, session_ids: [b]}}, and
\* the Deleter run on that report ends with deleted 1 and no errors, the
\* index rewritten with the entry a alone, a.jsonl in place and b.jsonl
\* gone.
EndToEndScenario ==
    (ScenarioTree /\ faults = 0) =>
        /\ scanPc # "raised"
        /\ pc # "raised"
        /\ scanPc = "exited" =>
              output = <<ReportOutput(<<ResultEntry("p1", 2, <<"b">>)>>)>>
        /\ pc = "done" =>
              /\ deleted = 1
              /\ errors = <<>>
              /\ "p1" \in written
              /\ indexFile["p1"] = JsonIndex(TRUE, <<Entry("a")>>)
              /\ <<"p1", "a">> \in logs
              /\ <<"p1", "b">> \notin logs

\* The Deleter has ended on the report for the tree of the scenario and no
\* file operation raised.
EndToEndWitness ==
    /\ ScenarioTree
    /\ faults = 0
    /\ pc = "done"
    /\ report = <<ReportEntry("p1", <<"b">>)>>
    /\ removed = {<<"p1", "b">>}

\* ------------------------------------------------------------------------
\* Properties of linear.py
\* ------------------------------------------------------------------------

\* C28: when the command done has succeeded, the state assigned to the
\* issue is a workflow state of the issue's team whose type is completed.
MarkDoneAssignsCompleted ==
    (cmd.name = "done" /\ reply = <<Success>>) =>
        /\ remote.issueState \in DOMAIN remote.states
        /\ remote.states[remote.issueState].type = "completed"

\* The ids an input sends for removal and as the new set.
SentRemoved(input) ==
    IF "removedLabelIds" \in input.keys THEN Range(input.removedLabelIds) ELSE {}
SentLabels(input) ==
    IF "labelIds" \in input.keys THEN Range(input.labelIds) ELSE {}

\* C29: a step of the command update that ends in success, given label
\* names, sends as labelIds one id for each name, in the order given, each
\* the id of a label of the team whose name holds the given name (letter
\* case apart), and sends for removal exactly the labels the issue had that
\* are not among them, so that the issue then has exactly the labels sent;
\* given --no-labels it sends no labelIds and every label the issue had for
\* removal, and the issue then has no label.
UpdateReplacesLabels ==
    [][(cmd.name = "update" /\ reply' = <<Success>>) =>
        LET sent == requests'[Len(requests')].input
        IN  /\ requests'[Len(requests')].op = "issueUpdate"
            /\ cmd.no_labels =>
                  /\ "labelIds" \notin sent.keys
                  /\ SentRemoved(sent) = remote.issueLabels
                  /\ remote'.issueLabels = {}
            /\ (~cmd.no_labels /\ cmd.label # <<>>) =>
                  /\ "labelIds" \in sent.keys
                  /\ Len(sent.labelIds) = Len(cmd.label)
                  /\ \A i \in DOMAIN cmd.label :
                        /\ sent.labelIds[i] \in DOMAIN remote.labels
                        /\ Contains(Lower(remote.labels[sent.labelIds[i]].name),
                                    Lower(cmd.label[i]))
                  /\ SentRemoved(sent) = remote.issueLabels \ SentLabels(sent)
                  /\ remote'.issueLabels = SentLabels(sent)]_vars

\* The command update with two label names has succeeded on an issue that
\* had a label of no team: the ids of the two names were sent in the order
\* given, the other label was sent for removal, and the issue has the two
\* labels given.
UpdateLabelsWitness ==
    /\ cmd.name = "update"
    /\ ~cmd.no_labels
    /\ Len(cmd.label) = 2
    /\ reply = <<Success>>
    /\ requests[Len(requests)].input.removedLabelIds = <<9>>
    /\ requests[Len(requests)].input.labelIds = <<2, 1>>
    /\ remote.issueLabels = {1, 2}

\* C30: relate A blocked-by B sends the input relate B blocks A sends,
\* type blocks with source B and target A; when the command relate has
\* ended, a relation word that is, letter case apart, none of blocks,
\* blocked-by, relates-to and duplicates was refused with INVALID_INPUT
\* (the API key being set) and no request was sent; and after a success
\* the one relation created has the second issue as its source and the
\* first as its target for blocked-by, and the first as its source and the
\* second as its target for the three other words.
RelateDirections ==
    /\ \A a, b \in Issues :
          /\ RelationInput(a, <<"b", "l", "o", "c", "k", "e", "d", "-", "b", "y">>, b) = RelationInput(b, <<"b", "l", "o", "c", "k", "s">>, a)
          /\ RelationOf(RelationInput(a, <<"b", "l", "o", "c", "k", "e", "d", "-", "b", "y">>, b))
                = [type |-> "blocks", issueId |-> b, relatedIssueId |-> a]
    /\ (cmd.name = "relate" /\ reply # <<>>) =>
          LET lower == Lower(cmd.relation)
          IN  IF lower \notin {<<"b", "l", "o", "c", "k", "s">>, <<"b", "l", "o", "c", "k", "e", "d", "-", "b", "y">>, <<"r", "e", "l", "a", "t", "e", "s", "-", "t", "o">>, <<"d", "u", "p", "l", "i", "c", "a", "t", "e", "s">>}
              THEN /\ api_key => reply = <<Failure("INVALID_INPUT")>>
                   /\ ~reply[1].success
                   /\ requests = <<>>
                   /\ remote.relations = {}
              ELSE reply = <<Success>> =>
                     /\ Len(requests) = 3
                     /\ requests[3].op = "issueRelationCreate"
                     /\ remote.relations = {RelationOf(requests[3].input)}
                     /\ remote.relations =
                            IF lower = <<"b", "l", "o", "c", "k", "e", "d", "-", "b", "y">>
                            THEN {[type |-> "blocks", issueId |-> cmd.target_id,
                                   relatedIssueId |-> cmd.issue_id]}
                            ELSE {[type |-> CASE lower = <<"b", "l", "o", "c", "k", "s">> -> "blocks"
                                              [] lower = <<"r", "e", "l", "a", "t", "e", "s", "-", "t", "o">> -> "related"
                                              [] OTHER -> "duplicate",
                                   issueId |-> cmd.issue_id,
                                   relatedIssueId |-> cmd.target_id]}

\* The command relate A blocked-by B has succeeded and created the relation
\* of type blocks from B to A.
RelateWitness ==
    /\ cmd = RelateCmd("A", <<"b", "l", "o", "c", "k", "e", "d", "-", "b", "y">>, "B")
    /\ reply = <<Success>>
    /\ remote.relations =
           {[type |-> "blocks", issueId |-> "B", relatedIssueId |-> "A"]}

====
